---- MODULE Spec2Model ----
(***************************************************************************)
(* Sparse Merkle Patricia Trie (simple-trie / ref-mpt) and the sparse      *)
(* state built on it (simple-sparse-state).                                *)
(*                                                                         *)
(* Byte strings are sequences of items.  An item is either one byte        *)
(* (b in 0..255, h = <<>>) or one Keccak-256 output (b = 256, h = the      *)
(* hashed byte string), which stands for 32 bytes.  keccak256 is thus an   *)
(* injective function of its input: two hashes are equal iff the hashed    *)
(* encodings are equal.                                                    *)
(***************************************************************************)
EXTENDS Integers, Sequences, FiniteSets, TLC

\* ------------------------------------------------------------------ bounds
\* Largest number of keys stored at once in the reference map.
MaxKeys == 3
\* The keys of the full trie a witness is taken of.
MaxFullKeys == 2
\* The operations applied to a revealed trie.
MaxSparseOps == 2
\* The account and storage reads of a sparse state.
MaxStateReads == 1
\* The account and storage reads of a sparse state that is only read.
MaxReadCalls == 2
\* The calls of calculate_state_root that change a sparse state.
MaxStateRoots == 1
\* The children held at once by a children array on its own.
MaxChildren == 2

\* ------------------------------------------------------------ byte strings
Byte(n) == [b |-> n, h |-> <<>>]
Tok(enc) == [b |-> 256, h |-> enc]
IsTok(it) == it.b = 256

RECURSIVE WeightFrom(_, _)
WeightFrom(s, i) ==
    IF i > Len(s) THEN 0
    ELSE (IF IsTok(s[i]) THEN 32 ELSE 1) + WeightFrom(s, i + 1)

\* Number of bytes of a byte string (Vec::len, Bytes::len).
ByteLen(s) == WeightFrom(s, 1)

\* alloy_primitives::keccak256: a B256 is a byte string of one hash item.
keccak256(bytes) == <<Tok(bytes)>>

EMPTY_STRING_CODE == 128

\* alloy_trie::EMPTY_ROOT_HASH = keccak256(rlp("")) = keccak256([0x80]).
EMPTY_ROOT_HASH == keccak256(<<Byte(EMPTY_STRING_CODE)>>)

\* Option<B256>::None of the hash caches.
NoHash == <<>>

\* ------------------------------------------------------------------- RLP
\* Big-endian bytes of a length (alloy_rlp::Header::encode, long form).
BeBytes(n) ==
    IF n < 256 THEN <<Byte(n)>>
    ELSE <<Byte(n \div 256), Byte(n % 256)>>

\* alloy_rlp::Header { list: true, payload_length }.encode
encode_list_header(payload_length) ==
    IF payload_length < 56 THEN <<Byte(192 + payload_length)>>
    ELSE LET be == BeBytes(payload_length)
         IN  <<Byte(247 + Len(be))>> \o be

\* <[u8] as Encodable>::encode: the RLP of a byte string.
RlpBytes(s) ==
    LET n == ByteLen(s)
    IN  IF n = 1 /\ ~IsTok(s[1]) /\ s[1].b < 128 THEN s
        ELSE IF n < 56 THEN <<Byte(128 + n)>> \o s
        ELSE LET be == BeBytes(n)
             IN  <<Byte(183 + Len(be))>> \o be \o s

\* ---------------------------------------------------------------- nibbles
\* The nibbles used in generated keys (a nibble is 0..15).
Nibs == {0, 15}

\* Nibbles::unpack(B256): the fixed-length keys of the public API (64 nibbles
\* in the program, 3 here).
Keys == {<<a, b, c>> : a \in Nibs, b \in Nibs, c \in Nibs}

\* The strict prefixes of the keys: paths given to get_path / remove_path.
PrefixPaths == {SubSeq(k, 1, n) : k \in Keys, n \in 0..2}

\* Values: one byte, and 32 bytes (a keccak output).
Values == {<<[b |-> 1, h |-> <<>>]>>,
           <<[b |-> 256, h |-> <<[b |-> 0, h |-> <<>>]>>]>>}

RECURSIVE common_prefix_from(_, _, _)
common_prefix_from(a, b, i) ==
    IF i > Len(a) \/ i > Len(b) \/ a[i] # b[i] THEN i - 1
    ELSE common_prefix_from(a, b, i + 1)

\* Nibbles::common_prefix_length
common_prefix_length(a, b) == common_prefix_from(a, b, 1)

\* Nibbles::slice(from..): the nibbles after the first `from` ones.
SliceFrom(p, from) == SubSeq(p, from + 1, Len(p))
\* Nibbles::slice(..to)
SliceTo(p, to) == SubSeq(p, 1, to)

RECURSIVE PackNibbles(_, _)
PackNibbles(p, i) ==
    IF i > Len(p) THEN <<>>
    ELSE <<Byte(16 * p[i] + p[i + 1])>> \o PackNibbles(p, i + 2)

\* alloy_trie::nodes::encode_path_leaf: hex-prefix encoding of a path.
encode_path_leaf(path, is_leaf) ==
    LET odd  == Len(path) % 2 = 1
        flag == (IF is_leaf THEN 32 ELSE 0)
                + (IF odd THEN 16 + path[1] ELSE 0)
    IN  <<Byte(flag)>> \o PackNibbles(path, IF odd THEN 2 ELSE 1)

\* ------------------------------------------------------------------ nodes
\* TrieNode: Leaf { path, value, hash }, Branch { children, path, hash },
\* Digest { path, value, hash }; "None" is an empty child slot or root.
NoneNode ==
    [kind |-> "None", path |-> <<>>, value |-> <<>>, children |-> <<>>,
     flags |-> 0, hash |-> NoHash]

LeafNode(path, value, hash) ==
    [kind |-> "Leaf", path |-> path, value |-> value, children |-> <<>>,
     flags |-> 0, hash |-> hash]

DigestNode(path, value, hash) ==
    [kind |-> "Digest", path |-> path, value |-> value, children |-> <<>>,
     flags |-> 0, hash |-> hash]

BranchNode(path, children, flags, hash) ==
    [kind |-> "Branch", path |-> path, value |-> <<>>, children |-> children,
     flags |-> flags, hash |-> hash]

Pow2(i) == 2 ^ i

RECURSIVE BitAndFrom(_, _, _)
BitAndFrom(a, b, i) ==
    IF i > 15 THEN 0
    ELSE (IF (a \div Pow2(i)) % 2 = 1 /\ (b \div Pow2(i)) % 2 = 1
          THEN Pow2(i) ELSE 0) + BitAndFrom(a, b, i + 1)

\* u16 & u16
BitAnd(a, b) == BitAndFrom(a, b, 0)

HasBit(flags, idx) == (flags \div Pow2(idx)) % 2 = 1

RECURSIVE trailing_zeros_from(_, _)
trailing_zeros_from(flags, i) ==
    IF i > 15 \/ HasBit(flags, i) THEN i
    ELSE trailing_zeros_from(flags, i + 1)

\* u16::trailing_zeros (16 for 0)
trailing_zeros(flags) == trailing_zeros_from(flags, 0)

\* BranchNodeChildrenArray::new
ChildrenNew == [i \in 1..16 |-> NoneNode]

\* BranchNodeChildrenArray::get / get_mut
ChildAt(node, idx) == node.children[idx + 1]

\* BranchNodeChildrenArray::insert: children[idx] = Some(node); flags |= 1 << idx
ChildrenInsert(node, idx, child) ==
    [node EXCEPT !.children = [@ EXCEPT ![idx + 1] = child],
                 !.flags = IF HasBit(@, idx) THEN @ ELSE @ + Pow2(idx)]

\* BranchNodeChildrenArray::remove: children[idx] = None; flags &= !(1 << idx)
ChildrenRemove(node, idx) ==
    [node EXCEPT !.children = [@ EXCEPT ![idx + 1] = NoneNode],
                 !.flags = IF HasBit(@, idx) THEN @ - Pow2(idx) ELSE @]

\* BranchNodeChildrenArray::is_empty
ChildrenIsEmpty(node) == node.flags = 0

\* clear_cache that leaves the cache as it is.
clear_cache_Keeps(node) == node

\* TrieNode::clear_cache
clear_cache(node) == [node EXCEPT !.hash = NoHash]

\* TrieNode::set_cache
set_cache(node, hash) == [node EXCEPT !.hash = hash]

\* Outcome of an operation: "ok", or the panic that ended it.
Res(node, st) == [node |-> node, st |-> st]

\* ----------------------------------------------------------------- insert
\* BranchNode::new: a branch over two children.
BranchNodeNew(path, child1_idx, child1, child2_idx, child2) ==
    ChildrenInsert(
        ChildrenInsert(BranchNode(path, ChildrenNew, 0, NoHash),
                       child1_idx, child1),
        child2_idx, child2)

\* BranchSplit with the old branch keeping none of its path.
BranchSplit_DropsRest(branch, path, value, cpl) ==
    IF cpl >= Len(path) THEN Res(branch, "oob")
    ELSE Res(BranchNodeNew(
                 SliceTo(path, cpl),
                 branch.path[cpl + 1],
                 BranchNode(<<>>, branch.children, branch.flags, NoHash),
                 path[cpl + 1],
                 LeafNode(SliceFrom(path, cpl + 1), value, NoHash)),
             "ok")

\* The split arm of BranchNode::insert: the branch path diverges from `path`.
BranchSplit(branch, path, value, cpl) ==
    IF cpl >= Len(path) THEN Res(branch, "oob")
    ELSE Res(BranchNodeNew(
                 SliceTo(path, cpl),
                 branch.path[cpl + 1],
                 BranchNode(SliceFrom(branch.path, cpl + 1), branch.children,
                            branch.flags, NoHash),
                 path[cpl + 1],
                 LeafNode(SliceFrom(path, cpl + 1), value, NoHash)),
             "ok")

\* The Leaf arm of TrieNode::insert.
LeafInsert(leaf, path, value) ==
    IF path = leaf.path THEN Res([leaf EXCEPT !.value = value], "ok")
    ELSE LET cpl == common_prefix_length(leaf.path, path)
         IN  IF cpl >= Len(leaf.path) \/ cpl >= Len(path)
             THEN Res(leaf, "oob")
             ELSE Res(BranchNodeNew(
                          SliceTo(path, cpl),
                          leaf.path[cpl + 1],
                          LeafNode(SliceFrom(leaf.path, cpl + 1), leaf.value,
                                   NoHash),
                          path[cpl + 1],
                          LeafNode(SliceFrom(path, cpl + 1), value, NoHash)),
                      "ok")

\* The Digest arm of TrieNode::insert, with the digest keeping its path.
DigestInsert_KeepsPath(digest, path, value) ==
    LET cpl == common_prefix_length(path, digest.path)
    IN  IF cpl < Len(digest.path)
        THEN IF cpl >= Len(path) THEN Res(digest, "oob")
             ELSE Res(BranchNodeNew(
                          SliceTo(path, cpl),
                          digest.path[cpl + 1],
                          DigestNode(digest.path, digest.value, NoHash),
                          path[cpl + 1],
                          LeafNode(SliceFrom(path, cpl + 1), value, NoHash)),
                      "ok")
        ELSE Res(digest, "unresolved")

\* The Digest arm of TrieNode::insert.
DigestInsert(digest, path, value) ==
    LET cpl == common_prefix_length(path, digest.path)
    IN  IF cpl < Len(digest.path)
        THEN IF cpl >= Len(path) THEN Res(digest, "oob")
             ELSE Res(BranchNodeNew(
                          SliceTo(path, cpl),
                          digest.path[cpl + 1],
                          DigestNode(SliceFrom(digest.path, cpl + 1),
                                     digest.value, NoHash),
                          path[cpl + 1],
                          LeafNode(SliceFrom(path, cpl + 1), value, NoHash)),
                      "ok")
        ELSE Res(digest, "unresolved")

RECURSIVE TrieNodeInsert(_, _, _)
\* TrieNode::insert with BranchNode::insert: the cache is cleared on entry,
\* then the node is rewritten or the insert descends into one child.
TrieNodeInsert(node0, path, value) ==
    LET node == clear_cache(node0)
    IN  CASE node.kind = "Leaf" -> LeafInsert(node, path, value)
          [] node.kind = "Digest" -> DigestInsert(node, path, value)
          [] OTHER ->
             LET cpl == common_prefix_length(node.path, path)
             IN  IF cpl = Len(node.path)
                 THEN IF cpl >= Len(path) THEN Res(node, "oob")
                      ELSE LET new_idx == path[cpl + 1]
                               child   == ChildAt(node, new_idx)
                           IN  IF child.kind # "None"
                               THEN LET r == TrieNodeInsert(
                                                 child,
                                                 SliceFrom(path, cpl + 1),
                                                 value)
                                    IN  Res([node EXCEPT
                                               !.children[new_idx + 1] = r.node],
                                            r.st)
                               ELSE Res(ChildrenInsert(
                                            node, new_idx,
                                            LeafNode(SliceFrom(path, cpl + 1),
                                                     value, NoHash)),
                                        "ok")
                 ELSE BranchSplit(node, path, value, cpl)

\* Trie::insert_path
insert_path(root, path, value) ==
    IF root.kind = "None" THEN Res(LeafNode(path, value, NoHash), "ok")
    ELSE TrieNodeInsert(root, path, value)

\* -------------------------------------------------------------------- get
\* Option<&Bytes> or a panic: [st, some, value].
GetRes(st, some, value) == [st |-> st, some |-> some, value |-> value]
GetNone == GetRes("ok", FALSE, <<>>)

\* LeafGet without the comparison of the paths.
LeafGet_AnyPath(leaf, path) == GetRes("ok", TRUE, leaf.value)

\* LeafNode::get
LeafGet(leaf, path) ==
    IF leaf.path = path THEN GetRes("ok", TRUE, leaf.value) ELSE GetNone

\* DigestNode::get
DigestGet(digest, path) ==
    IF common_prefix_length(path, digest.path) < Len(digest.path)
    THEN GetNone
    ELSE GetRes("unresolved", FALSE, <<>>)

RECURSIVE TrieNodeGet(_, _)
\* TrieNode::get with BranchNode::get; path[common_prefix_len] indexes the
\* path and panics when the path ends at the branch.
TrieNodeGet(node, path) ==
    CASE node.kind = "Leaf" -> LeafGet(node, path)
      [] node.kind = "Digest" -> DigestGet(node, path)
      [] OTHER ->
         LET cpl == common_prefix_length(node.path, path)
         IN  IF cpl = Len(node.path)
             THEN IF cpl >= Len(path) THEN GetRes("oob", FALSE, <<>>)
                  ELSE LET child == ChildAt(node, path[cpl + 1])
                       IN  IF child.kind # "None"
                           THEN TrieNodeGet(child, SliceFrom(path, cpl + 1))
                           ELSE GetNone
             ELSE GetNone

\* Trie::get_path
get_path(root, path) ==
    IF root.kind = "None" THEN GetNone ELSE TrieNodeGet(root, path)

\* ------------------------------------------------------------------- hash
\* LeafNode::encode: the 2-item list [hex-prefix path, value].
LeafEncode(leaf) ==
    LET path  == RlpBytes(encode_path_leaf(leaf.path, TRUE))
        value == RlpBytes(leaf.value)
    IN  encode_list_header(ByteLen(path) + ByteLen(value)) \o path \o value

\* B256::encode: 0xa0 and the 32 bytes.
EncodeB256(h) == <<Byte(160)>> \o h

\* shorten_encoding: a child shorter than 32 bytes is inlined, else hashed.
shorten_encoding(b) ==
    IF ByteLen(b) < 32 THEN b ELSE EncodeB256(keccak256(b))

\* DigestNode::encode
DigestEncode(digest) ==
    IF digest.path = <<>> THEN EncodeB256(digest.value)
    ELSE LET encoded_path == RlpBytes(encode_path_leaf(digest.path, FALSE))
         IN  encode_list_header(ByteLen(encoded_path) + 33)
                 \o encoded_path \o EncodeB256(digest.value)

\* DigestNode::hash: the value it returns.
DigestHash(digest) ==
    IF digest.hash # NoHash THEN digest.hash
    ELSE IF digest.path = <<>> THEN digest.value
    ELSE keccak256(DigestEncode(digest))

RECURSIVE BranchEncode(_)
RECURSIVE BranchChildrenEncode(_, _)
\* The loop of BranchNode::encode over the 16 slots, from slot i on.
BranchChildrenEncode(branch, i) ==
    IF i > 16 THEN <<>>
    ELSE LET child == branch.children[i]
             enc == CASE child.kind = "None" -> <<Byte(EMPTY_STRING_CODE)>>
                      [] child.kind = "Leaf" ->
                            shorten_encoding(LeafEncode(child))
                      [] child.kind = "Branch" ->
                            shorten_encoding(BranchEncode(child))
                      [] OTHER ->
                            IF child.path = <<>> THEN EncodeB256(child.value)
                            ELSE EncodeB256(DigestHash(child))
         IN  enc \o BranchChildrenEncode(branch, i + 1)

\* BranchNode::encode: the 17-item list, wrapped in an extension [path, ref]
\* when the branch has a path.
BranchEncode(branch) ==
    LET encoded == BranchChildrenEncode(branch, 1)
                       \o <<Byte(EMPTY_STRING_CODE)>>
        encoded_branch == encode_list_header(ByteLen(encoded)) \o encoded
    IN  IF branch.path = <<>> THEN encoded_branch
        ELSE LET encoded_path == RlpBytes(encode_path_leaf(branch.path, FALSE))
                 shortened == shorten_encoding(encoded_branch)
             IN  encode_list_header(ByteLen(encoded_path) + ByteLen(shortened))
                     \o encoded_path \o shortened

\* TrieNode::hash: the value it returns (a set cache is returned as it is).
NodeHash(node) ==
    IF node.hash # NoHash THEN node.hash
    ELSE CASE node.kind = "Leaf" -> keccak256(LeafEncode(node))
           [] node.kind = "Branch" -> keccak256(BranchEncode(node))
           [] OTHER -> DigestHash(node)

RECURSIVE BranchAfterEncode(_)
\* What BranchNode::encode leaves behind: digest.hash() on a child Digest with
\* a path stores its cache; child branches are encoded, not hashed.
BranchAfterEncode(branch) ==
    [branch EXCEPT !.children =
        [i \in 1..16 |->
            LET child == branch.children[i]
            IN  CASE child.kind = "Branch" -> BranchAfterEncode(child)
                  [] child.kind = "Digest" /\ child.path # <<>> ->
                        set_cache(child, DigestHash(child))
                  [] OTHER -> child]]

\* TrieNode::hash: the node it leaves behind.
NodeAfterHash(node) ==
    IF node.hash # NoHash THEN node
    ELSE IF node.kind = "Branch"
         THEN set_cache(BranchAfterEncode(node), keccak256(BranchEncode(node)))
         ELSE set_cache(node, NodeHash(node))

\* Trie::hash: the root hash it returns.
TrieHash(root) ==
    IF root.kind = "None" THEN EMPTY_ROOT_HASH ELSE NodeHash(root)

\* Trie::hash: the root it leaves behind.
TrieAfterHash(root) ==
    IF root.kind = "None" THEN root ELSE NodeAfterHash(root)

\* ----------------------------------------------------------------- remove
\* What a build does with one_child_left on a bitmap of 0. In the simple-trie
\* copy `flags - 1` overflows (a panic with overflow checks); without them it
\* wraps, the index is trailing_zeros(0) = 16 and get_unchecked_mut(16) reads
\* past the array (an unwrap of None, or a wild pointer). The ref-mpt copy
\* is guarded and returns None.
BuildOutcomes == {"overflow", "unwrap_none", "wild_pointer", "guarded"}

OneChild(st, some, idx) == [st |-> st, some |-> some, idx |-> idx]

\* BranchNodeChildrenArray::one_child_left (simple-trie)
one_child_left(node, ub) ==
    LET flags == node.flags
        dec   == IF flags = 0
                 THEN (IF ub = "overflow" THEN -1 ELSE 65535)
                 ELSE flags - 1
    IN  IF dec < 0 THEN OneChild("overflow", FALSE, 0)
        ELSE IF BitAnd(flags, dec) = 0
             THEN LET idx == trailing_zeros(flags)
                  IN  IF idx > 15 THEN OneChild(ub, FALSE, idx)
                      ELSE OneChild("ok", TRUE, idx)
             ELSE OneChild("ok", FALSE, 0)

\* BranchNodeChildrenArray::one_child_left (ref-mpt): guarded against 0.
one_child_left_guarded(node) ==
    LET flags == node.flags
    IN  IF flags = 0 \/ BitAnd(flags, flags - 1) # 0
        THEN OneChild("ok", FALSE, 0)
        ELSE OneChild("ok", TRUE, trailing_zeros(flags))

\* BranchNode::only_one_child_left, with the copy of one_child_left the build
\* links.
only_one_child_left(branch, ub) ==
    IF ub = "guarded" THEN one_child_left_guarded(branch)
    ELSE one_child_left(branch, ub)

\* Collapse that never replaces the branch.
Collapse_Never(branch, ub) == Res(branch, "ok")

\* Collapse that leaves the branch as it is when its one child is a Digest.
Collapse_DigestStays(branch, ub) ==
    LET one == only_one_child_left(branch, ub)
    IN  IF one.st # "ok" THEN Res(branch, one.st)
        ELSE IF ~one.some THEN Res(branch, "ok")
        ELSE LET child    == ChildAt(branch, one.idx)
                 new_path == (branch.path \o <<one.idx>>) \o child.path
             IN  CASE child.kind = "Branch" ->
                        Res(BranchNode(new_path, child.children, child.flags,
                                       NoHash), "ok")
                   [] child.kind = "Leaf" ->
                        Res(LeafNode(new_path, child.value, NoHash), "ok")
                   [] OTHER -> Res(branch, "ok")

\* Collapse with the child's index left out of the merged path.
Collapse_NoIndex(branch, ub) ==
    LET one == only_one_child_left(branch, ub)
    IN  IF one.st # "ok" THEN Res(branch, one.st)
        ELSE IF ~one.some THEN Res(branch, "ok")
        ELSE LET child    == ChildAt(branch, one.idx)
                 new_path == branch.path \o child.path
             IN  CASE child.kind = "Branch" ->
                        Res(BranchNode(new_path, child.children, child.flags,
                                       NoHash), "ok")
                   [] child.kind = "Leaf" ->
                        Res(LeafNode(new_path, child.value, NoHash), "ok")
                   [] OTHER -> Res(branch, "unresolved")

\* The collapse of TrieNode::remove: a branch left with one child becomes
\* that child, with path = branch path ++ [child index] ++ child path.
Collapse(branch, ub) ==
    LET one == only_one_child_left(branch, ub)
    IN  IF one.st # "ok" THEN Res(branch, one.st)
        ELSE IF ~one.some THEN Res(branch, "ok")
        ELSE LET child    == ChildAt(branch, one.idx)
                 new_path == (branch.path \o <<one.idx>>) \o child.path
             IN  CASE child.kind = "Branch" ->
                        Res(BranchNode(new_path, child.children, child.flags,
                                       NoHash), "ok")
                   [] child.kind = "Leaf" ->
                        Res(LeafNode(new_path, child.value, NoHash), "ok")
                   [] OTHER -> Res(branch, "unresolved")

\* BranchNode::remove, after the recursion into the child: a Leaf child whose
\* path is the rest of the removed path, or an empty Branch child, is dropped.
DropChild(branch, idx, rest) ==
    LET child == ChildAt(branch, idx)
    IN  CASE child.kind = "Leaf" ->
               IF child.path = rest THEN Res(ChildrenRemove(branch, idx), "ok")
               ELSE Res(branch, "ok")
          [] child.kind = "Branch" ->
               IF ChildrenIsEmpty(child)
               THEN Res(ChildrenRemove(branch, idx), "ok")
               ELSE Res(branch, "ok")
          [] OTHER -> Res(branch, "unresolved")

RECURSIVE TrieNodeRemove(_, _, _)
\* TrieNode::remove with BranchNode::remove.
TrieNodeRemove(node0, path, ub) ==
    LET node == clear_cache(node0)
    IN  CASE node.kind = "Leaf" -> Res(node, "ok")
          [] node.kind = "Digest" -> Res(node, "unresolved")
          [] OTHER ->
             LET cpl == common_prefix_length(node.path, path)
                 removed ==
                   IF cpl # Len(node.path) THEN Res(node, "ok")
                   ELSE IF cpl >= Len(path) THEN Res(node, "oob")
                   ELSE LET idx == path[cpl + 1]
                            rest == SliceFrom(path, cpl + 1)
                        IN  IF ChildAt(node, idx).kind = "None"
                            THEN Res(node, "ok")
                            ELSE LET r == TrieNodeRemove(ChildAt(node, idx),
                                                         rest, ub)
                                     n == [node EXCEPT
                                             !.children[idx + 1] = r.node]
                                 IN  IF r.st # "ok" THEN Res(n, r.st)
                                     ELSE DropChild(n, idx, rest)
             IN  IF removed.st # "ok" THEN removed
                 ELSE Collapse(removed.node, ub)

\* remove_path without the arm for a Leaf root.
remove_path_NoLeafArm(root, path, ub) ==
    IF root.kind = "None" THEN Res(root, "ok")
    ELSE TrieNodeRemove(root, path, ub)

\* Trie::remove_path
remove_path(root, path, ub) ==
    CASE root.kind = "None" -> Res(root, "ok")
      [] root.kind = "Leaf" ->
           IF path = root.path THEN Res(NoneNode, "ok") ELSE Res(root, "ok")
      [] OTHER -> TrieNodeRemove(root, path, ub)

\* ------------------------------------------------------------------- maps
\* BTreeMap / HashMap: insert, remove, new
MapInsert(m, k, v) == [x \in DOMAIN m \cup {k} |-> IF x = k THEN v ELSE m[x]]
MapRemove(m, k) == [x \in DOMAIN m \ {k} |-> m[x]]
EmptyMap == [x \in {} |-> <<>>]

\* ----------------------------------------------------------------- decode
\* F(v), with v evaluated once however often F refers to it.
With(v, F(_)) == CHOOSE r \in {F(x) : x \in {v}} : TRUE

DecErr == [ok |-> FALSE, list |-> FALSE, payload |-> <<>>, rest |-> <<>>]

RECURSIVE PrefixLenFrom(_, _, _)
PrefixLenFrom(s, n, i) ==
    IF n = 0 THEN i
    ELSE IF i >= Len(s) THEN -1
    ELSE IF IsTok(s[i + 1])
         THEN (IF n < 32 THEN -1 ELSE PrefixLenFrom(s, n - 32, i + 1))
         ELSE PrefixLenFrom(s, n - 1, i + 1)

\* The number of leading items of `s` that make up `n` bytes; -1 if `s` is
\* shorter or a 32-byte item straddles the boundary.
PrefixLen(s, n) == PrefixLenFrom(s, n, 0)

RECURSIVE BeValue(_)
\* The length a long header spells out in big-endian bytes.
BeValue(s) ==
    IF s = <<>> THEN 0
    ELSE 256 * BeValue(SubSeq(s, 1, Len(s) - 1)) + s[Len(s)].b

\* The payload of `n` bytes that follows a header of `hdr` items.
HeaderPayload(s, list, hdr, n, long) ==
    With(PrefixLen(SubSeq(s, hdr + 1, Len(s)), n), LAMBDA k :
        IF k < 0 THEN DecErr
        ELSE IF ~list /\ n = 1 /\ ~IsTok(s[hdr + 1]) /\ s[hdr + 1].b < 128
        THEN DecErr
        ELSE IF long /\ n < 56 THEN DecErr
        ELSE [ok |-> TRUE, list |-> list,
              payload |-> SubSeq(s, hdr + 1, hdr + k),
              rest |-> SubSeq(s, hdr + k + 1, Len(s))])

\* alloy_rlp::Header::decode_raw: the payload of the item at the head of `s`
\* and what follows the item. A header byte that is part of a hash is
\* rejected (no encoding places one there).
Header_decode_raw(s) ==
    IF s = <<>> \/ IsTok(s[1]) THEN DecErr
    ELSE LET b      == s[1].b
             list   == b >= 192
             base   == IF list THEN 192 ELSE 128
             lenlen == IF b - base < 56 THEN 0 ELSE b - base - 55
             hdr    == 1 + lenlen
         IN  IF b < 128
             THEN [ok |-> TRUE, list |-> FALSE, payload |-> <<s[1]>>,
                   rest |-> Tail(s)]
             ELSE IF Len(s) < hdr \/ \E i \in 2..hdr : IsTok(s[i])
             THEN DecErr
             ELSE HeaderPayload(s, list, hdr,
                                IF lenlen = 0 THEN b - base
                                ELSE BeValue(SubSeq(s, 2, hdr)),
                                lenlen > 0)

RECURSIVE SplitItems(_)
\* PayloadView::List: the items of a list payload, each with its header; an
\* item that cannot be decoded ends the list as an empty item.
SplitItems(payload) ==
    IF payload = <<>> THEN <<>>
    ELSE With(Header_decode_raw(payload), LAMBDA h :
             IF ~h.ok THEN << <<>> >>
             ELSE <<SubSeq(payload, 1, Len(payload) - Len(h.rest))>>
                      \o SplitItems(h.rest))

RECURSIVE UnpackNibbles(_)
\* Nibbles::unpack
UnpackNibbles(bytes) ==
    IF bytes = <<>> THEN <<>>
    ELSE <<bytes[1].b \div 16, bytes[1].b % 16>> \o UnpackNibbles(Tail(bytes))

PathErr == [ok |-> FALSE, path |-> <<>>, is_leaf |-> FALSE]

\* decode_path: the path of a hex-prefix encoding and whether it is a leaf's.
decode_path(buf) ==
    With(Header_decode_raw(buf), LAMBDA h :
        IF ~h.ok \/ h.list \/ \E i \in 1..Len(h.payload) : IsTok(h.payload[i])
        THEN PathErr
        ELSE With(UnpackNibbles(h.payload), LAMBDA path :
                 IF Len(path) < 2 \/ path[1] > 3 THEN PathErr
                 ELSE [ok |-> TRUE,
                       path |-> IF path[1] % 2 = 1 THEN SliceFrom(path, 1)
                                ELSE SliceFrom(path, 2),
                       is_leaf |-> path[1] >= 2]))

\* The flags of a children array: bit i is set where slot i holds a node.
FlagsOf(children) ==
    LET RECURSIVE Sum(_)
        Sum(i) == IF i > 15 THEN 0
                  ELSE (IF children[i + 1].kind # "None" THEN Pow2(i) ELSE 0)
                       + Sum(i + 1)
    IN  Sum(0)

\* The first outcome other than "ok" among 16 results, else "ok".
FirstFailure(rs) ==
    IF \A i \in 1..16 : rs[i].st = "ok" THEN "ok"
    ELSE rs[CHOOSE i \in 1..16 :
                /\ rs[i].st # "ok"
                /\ \A j \in 1..(i - 1) : rs[j].st = "ok"].st

RECURSIVE TrieNodeDecode(_)
RECURSIVE DecodeChildren(_, _)
\* The loop of TrieNode::decode over the first 16 items of a list of 17.
DecodeChildren(items, i) ==
    IF i > 16 THEN <<>>
    ELSE <<IF items[i] = <<Byte(EMPTY_STRING_CODE)>> THEN Res(NoneNode, "ok")
           ELSE TrieNodeDecode(items[i])>> \o DecodeChildren(items, i + 1)

\* TrieNode::decode of a list of 17 items
DecodeBranch(items) ==
    With(DecodeChildren(items, 1), LAMBDA rs :
        With([i \in 1..16 |-> rs[i].node], LAMBDA children :
            IF FirstFailure(rs) # "ok" THEN Res(NoneNode, FirstFailure(rs))
            ELSE IF items[17] # <<Byte(EMPTY_STRING_CODE)>>
            THEN Res(NoneNode, "err")
            ELSE Res(BranchNode(<<>>, children, FlagsOf(children), NoHash),
                     "ok")))

\* TrieNode::decode of a list of 2 items: a leaf or an extension
DecodeLeafOrExtension(items) ==
    With(decode_path(items[1]), LAMBDA p :
        IF ~p.ok THEN Res(NoneNode, "err")
        ELSE IF p.is_leaf
        THEN With(Header_decode_raw(items[2]), LAMBDA v :
                 IF ~v.ok \/ v.list THEN Res(NoneNode, "err")
                 ELSE Res(LeafNode(p.path, v.payload, NoHash), "ok"))
        ELSE With(TrieNodeDecode(items[2]), LAMBDA r :
                 IF r.st # "ok" THEN r
                 ELSE IF r.node.kind = "None" THEN Res(NoneNode, "panic")
                 ELSE IF r.node.kind = "Leaf" THEN Res(NoneNode, "err")
                 ELSE Res([r.node EXCEPT !.path = p.path], "ok")))

\* TrieNode::decode: Ok(Some(node)) and Ok(None) are "ok" with the node or
\* NoneNode, Err(_) is "err", a failed expect is "panic".
TrieNodeDecode(rlp_rep) ==
    With(Header_decode_raw(rlp_rep), LAMBDA h :
        IF ~h.ok THEN Res(NoneNode, "err")
        ELSE IF ~h.list
        THEN IF h.payload = <<>> THEN Res(NoneNode, "ok")
             ELSE IF ByteLen(h.payload) = 32
             THEN Res(DigestNode(<<>>, h.payload, NoHash), "ok")
             ELSE Res(NoneNode, "err")
        ELSE With(SplitItems(h.payload), LAMBDA items :
                 IF \E i \in 1..Len(items) : items[i] = <<>>
                 THEN Res(NoneNode, "err")
                 ELSE IF Len(items) = 17 THEN DecodeBranch(items)
                 ELSE IF Len(items) = 2 THEN DecodeLeafOrExtension(items)
                 ELSE Res(NoneNode, "err")))

\* ----------------------------------------------------------------- reveal
\* B256Map<Bytes>: a function from hashes to RLP encodings.
EmptyB256Map == [h \in {} |-> <<>>]

\* The map that holds each encoding of `rlps` under its keccak256.
WitnessMap(rlps) == [h \in {keccak256(r) : r \in rlps} |-> h[1].h]

RECURSIVE TrieNodeReveal(_, _)
RECURSIVE RevealChildren(_, _, _)
\* The loop of TrieNode::reveal over the children of a branch.
RevealChildren(branch, rlp_rep_map, i) ==
    IF i > 16 THEN <<>>
    ELSE <<IF branch.children[i].kind = "None" THEN Res(NoneNode, "ok")
           ELSE TrieNodeReveal(branch.children[i], rlp_rep_map)>>
             \o RevealChildren(branch, rlp_rep_map, i + 1)

\* TrieNode::reveal of a Digest whose value the map decodes to `d`.
RevealDigest(node, d, rlp_rep_map) ==
    IF d.st # "ok" \/ d.node.kind = "None" THEN Res(node, "panic")
    ELSE IF d.node.kind = "Digest" /\ d.node.path = <<>> THEN Res(node, "ok")
    ELSE LET isBranch == d.node.kind = "Branch"
             revealed == IF isBranch THEN [d.node EXCEPT !.path = node.path]
                         ELSE d.node
             digest   == IF isBranch THEN [node EXCEPT !.path = <<>>]
                         ELSE node
         IN  TrieNodeReveal(set_cache(revealed, DigestHash(digest)),
                            rlp_rep_map)

\* TrieNode::reveal that drops a Digest the map has no entry for.
TrieNodeReveal_DropsMissing(node, rlp_rep_map) ==
    CASE node.kind = "Leaf" -> Res(node, "ok")
      [] node.kind = "Branch" ->
           With(RevealChildren(node, rlp_rep_map, 1), LAMBDA rs :
               Res([node EXCEPT !.children = [i \in 1..16 |-> rs[i].node]],
                   FirstFailure(rs)))
      [] node.kind = "Digest" ->
           IF node.value \notin DOMAIN rlp_rep_map THEN Res(NoneNode, "ok")
           ELSE With(TrieNodeDecode(rlp_rep_map[node.value]), LAMBDA d :
                    RevealDigest(node, d, rlp_rep_map))
      [] OTHER -> Res(node, "ok")

\* TrieNode::reveal
TrieNodeReveal(node, rlp_rep_map) ==
    CASE node.kind = "Leaf" -> Res(node, "ok")
      [] node.kind = "Branch" ->
           With(RevealChildren(node, rlp_rep_map, 1), LAMBDA rs :
               Res([node EXCEPT !.children = [i \in 1..16 |-> rs[i].node]],
                   FirstFailure(rs)))
      [] node.kind = "Digest" ->
           IF node.value \notin DOMAIN rlp_rep_map THEN Res(node, "ok")
           ELSE With(TrieNodeDecode(rlp_rep_map[node.value]), LAMBDA d :
                    RevealDigest(node, d, rlp_rep_map))
      [] OTHER -> Res(node, "ok")

\* Trie::reveal_from_rlp
reveal_from_rlp(root_hash, rlp_rep_map) ==
    IF root_hash = EMPTY_ROOT_HASH THEN Res(NoneNode, "ok")
    ELSE TrieNodeReveal(DigestNode(<<>>, root_hash, root_hash), rlp_rep_map)

\* ----------------------------------------------------------- sparse state
\* Numbers (u64, U256) are their big-endian bytes without leading zeros, the
\* form their RLP is made from: 0 is the empty string.
U256_ZERO == <<>>

KECCAK256_EMPTY == keccak256(<<>>)

\* alloy_trie::TrieAccount
TrieAccount(nonce, balance, storage_root, code_hash) ==
    [nonce |-> nonce, balance |-> balance, storage_root |-> storage_root,
     code_hash |-> code_hash]

\* <TrieAccount as Encodable>::encode (alloy_rlp::encode(account))
EncodeTrieAccount(a) ==
    With(RlpBytes(a.nonce) \o RlpBytes(a.balance)
             \o EncodeB256(a.storage_root) \o EncodeB256(a.code_hash),
         LAMBDA payload : encode_list_header(ByteLen(payload)) \o payload)

\* <u64 / U256 as Decodable>::decode from the head of `item`: a string with
\* no leading zero byte.
DecodeUint(item) ==
    With(Header_decode_raw(item), LAMBDA h :
        IF ~h.ok \/ h.list \/ ByteLen(h.payload) > 32
        THEN [ok |-> FALSE, v |-> <<>>]
        ELSE IF h.payload # <<>> /\ h.payload[1] = Byte(0)
        THEN [ok |-> FALSE, v |-> <<>>]
        ELSE [ok |-> TRUE, v |-> h.payload])

\* <B256 as Decodable>::decode from the head of `item`: a string of 32 bytes.
DecodeB256(item) ==
    With(Header_decode_raw(item), LAMBDA h :
        IF ~h.ok \/ h.list \/ ByteLen(h.payload) # 32
        THEN [ok |-> FALSE, v |-> <<>>]
        ELSE [ok |-> TRUE, v |-> h.payload])

AccountErr == [ok |-> FALSE, account |-> TrieAccount(<<>>, <<>>, <<>>, <<>>)]

\* alloy_rlp::decode_exact::<TrieAccount>
decode_exact_TrieAccount(value) ==
    With(Header_decode_raw(value), LAMBDA h :
        IF ~h.ok \/ ~h.list \/ h.rest # <<>> THEN AccountErr
        ELSE With(SplitItems(h.payload), LAMBDA items :
            IF Len(items) # 4 \/ \E i \in 1..Len(items) : items[i] = <<>>
            THEN AccountErr
            ELSE With(<<DecodeUint(items[1]), DecodeUint(items[2]),
                        DecodeB256(items[3]), DecodeB256(items[4])>>,
                      LAMBDA f :
                 IF \E i \in 1..4 : ~f[i].ok \/ ByteLen(f[1].v) > 8
                 THEN AccountErr
                 ELSE [ok |-> TRUE,
                       account |-> TrieAccount(f[1].v, f[2].v, f[3].v,
                                               f[4].v)])))

\* SimpleSparseState { state, storages, rlp_by_digest }
SimpleSparseState(state, storages, rlp_by_digest) ==
    [state |-> state, storages |-> storages, rlp_by_digest |-> rlp_by_digest]

\* Outcome of an operation on the state: the state after it, "ok" or the
\* panic that ended it, and what it returned.
SRes(s, st, ret) == [s |-> s, st |-> st, ret |-> ret]

\* SimpleSparseState::new
StateNew(witness_state, pre_state_root) ==
    With(WitnessMap(witness_state), LAMBDA rlp_by_digest :
        With(reveal_from_rlp(pre_state_root, rlp_by_digest), LAMBDA r :
            SRes(SimpleSparseState(r.node, EmptyB256Map, rlp_by_digest),
                 IF r.st = "ok" /\ TrieHash(r.node) # pre_state_root
                 THEN "debug_assert" ELSE r.st,
                 <<>>)))

\* SimpleSparseState::remove_account
remove_account(s, hashed_address, ub) ==
    With(remove_path(s.state, hashed_address, ub), LAMBDA r :
        IF r.st # "ok" THEN SRes([s EXCEPT !.state = r.node], r.st, <<>>)
        ELSE SRes([s EXCEPT !.state = r.node,
                            !.storages = MapRemove(@, hashed_address)],
                  "ok", <<>>))

\* SimpleSparseState::clear_storage
clear_storage(s, hashed_address) ==
    SRes([s EXCEPT !.storages = MapInsert(@, hashed_address, NoneNode)],
         "ok", <<>>)

\* SimpleSparseState::storage_trie_mut: the trie is
\* storages[hashed_address] of the state returned.
storage_trie_mut(s, hashed_address) ==
    IF hashed_address \in DOMAIN s.storages THEN SRes(s, "ok", <<>>)
    ELSE With(get_path(s.state, hashed_address), LAMBDA g :
        IF g.st # "ok" THEN SRes(s, g.st, <<>>)
        ELSE With(IF g.some THEN decode_exact_TrieAccount(g.value)
                  ELSE [ok |-> TRUE,
                        account |-> TrieAccount(<<>>, <<>>, EMPTY_ROOT_HASH,
                                                KECCAK256_EMPTY)],
                  LAMBDA a :
            IF ~a.ok THEN SRes(s, "unwrap_err", <<>>)
            ELSE With(reveal_from_rlp(a.account.storage_root, s.rlp_by_digest),
                      LAMBDA r :
                 SRes([s EXCEPT !.storages =
                                    MapInsert(@, hashed_address, r.node)],
                      r.st, <<>>))))

NoAccount == [some |-> FALSE, account |-> TrieAccount(<<>>, <<>>, <<>>, <<>>)]
SomeAccount(a) == [some |-> TRUE, account |-> a]

\* account that memoizes an empty storage trie for a value it cannot decode.
account_MemoizesUndecoded(s, hashed_address) ==
    With(get_path(s.state, hashed_address), LAMBDA g :
        IF g.st # "ok" THEN SRes(s, g.st, NoAccount)
        ELSE IF ~g.some THEN SRes(s, "ok", NoAccount)
        ELSE With(decode_exact_TrieAccount(g.value), LAMBDA a :
            IF ~a.ok
            THEN SRes([s EXCEPT !.storages =
                                   MapInsert(@, hashed_address, NoneNode)],
                      "ok", NoAccount)
            ELSE IF hashed_address \in DOMAIN s.storages
            THEN SRes(s, "ok", SomeAccount(a.account))
            ELSE IF a.account.storage_root = EMPTY_ROOT_HASH
            THEN SRes([s EXCEPT !.storages =
                                   MapInsert(@, hashed_address, NoneNode)],
                      "ok", SomeAccount(a.account))
            ELSE With(reveal_from_rlp(a.account.storage_root, s.rlp_by_digest),
                      LAMBDA r :
                 SRes([s EXCEPT !.storages =
                                    MapInsert(@, hashed_address, r.node)],
                      r.st, SomeAccount(a.account)))))

\* SimpleSparseState::account, by the hashed address; the storage trie of
\* the account is revealed and kept on the first call.
account(s, hashed_address) ==
    With(get_path(s.state, hashed_address), LAMBDA g :
        IF g.st # "ok" THEN SRes(s, g.st, NoAccount)
        ELSE IF ~g.some THEN SRes(s, "ok", NoAccount)
        ELSE With(decode_exact_TrieAccount(g.value), LAMBDA a :
            IF ~a.ok THEN SRes(s, "ok", NoAccount)
            ELSE IF hashed_address \in DOMAIN s.storages
            THEN SRes(s, "ok", SomeAccount(a.account))
            ELSE IF a.account.storage_root = EMPTY_ROOT_HASH
            THEN SRes([s EXCEPT !.storages =
                                   MapInsert(@, hashed_address, NoneNode)],
                      "ok", SomeAccount(a.account))
            ELSE With(reveal_from_rlp(a.account.storage_root, s.rlp_by_digest),
                      LAMBDA r :
                 SRes([s EXCEPT !.storages =
                                    MapInsert(@, hashed_address, r.node)],
                      r.st, SomeAccount(a.account)))))

\* storage that returns the stored bytes without decoding them.
storage_NoDecode(s, hashed_address, hashed_slot) ==
    IF hashed_address \notin DOMAIN s.storages THEN SRes(s, "ok", U256_ZERO)
    ELSE With(get_path(s.storages[hashed_address], hashed_slot), LAMBDA g :
        IF g.st # "ok" THEN SRes(s, g.st, U256_ZERO)
        ELSE IF ~g.some THEN SRes(s, "ok", U256_ZERO)
        ELSE SRes(s, "ok", g.value))

\* SimpleSparseState::storage, by the hashed address and the hashed slot
storage(s, hashed_address, hashed_slot) ==
    IF hashed_address \notin DOMAIN s.storages THEN SRes(s, "ok", U256_ZERO)
    ELSE With(get_path(s.storages[hashed_address], hashed_slot), LAMBDA g :
        IF g.st # "ok" THEN SRes(s, g.st, U256_ZERO)
        ELSE IF ~g.some THEN SRes(s, "ok", U256_ZERO)
        ELSE With(DecodeUint(g.value), LAMBDA d :
                 IF ~d.ok THEN SRes(s, "unwrap_err", U256_ZERO)
                 ELSE SRes(s, "ok", d.v)))

RECURSIVE StorageInserts(_, _, _, _)
\* calculate_state_root: the loop that inserts the slots with a value.
StorageInserts(root, slots, order, i) ==
    IF i > Len(order) THEN Res(root, "ok")
    ELSE IF slots[order[i]] = U256_ZERO
    THEN StorageInserts(root, slots, order, i + 1)
    ELSE With(insert_path(root, order[i], RlpBytes(slots[order[i]])),
              LAMBDA r : IF r.st # "ok" THEN r
                         ELSE StorageInserts(r.node, slots, order, i + 1))

RECURSIVE StorageRemoves(_, _, _, _, _)
\* calculate_state_root: the loop that removes the slots set to zero.
StorageRemoves(root, slots, order, i, ub) ==
    IF i > Len(order) THEN Res(root, "ok")
    ELSE IF slots[order[i]] # U256_ZERO
    THEN StorageRemoves(root, slots, order, i + 1, ub)
    ELSE With(remove_path(root, order[i], ub),
              LAMBDA r : IF r.st # "ok" THEN r
                         ELSE StorageRemoves(r.node, slots, order, i + 1, ub))

\* StorageRootAfter that removes the slots set to zero before it inserts the
\* others.
StorageRootAfter_RemovesFirst(s, post, a, order, ub) ==
    IF a \notin DOMAIN post.storages
    THEN With(storage_trie_mut(s, a), LAMBDA m :
             IF m.st # "ok" THEN m
             ELSE SRes([m.s EXCEPT !.storages[a] = TrieAfterHash(@)], "ok",
                       TrieHash(m.s.storages[a])))
    ELSE With(IF post.storages[a].wiped THEN clear_storage(s, a)
              ELSE storage_trie_mut(s, a), LAMBDA m :
        IF m.st # "ok" THEN m
        ELSE With(StorageRemoves(m.s.storages[a], post.storages[a].storage,
                                 order, 1, ub), LAMBDA rem :
            IF rem.st # "ok"
            THEN SRes([m.s EXCEPT !.storages[a] = rem.node], rem.st, <<>>)
            ELSE With(StorageInserts(rem.node, post.storages[a].storage,
                                     order, 1), LAMBDA ins :
                IF ins.st # "ok"
                THEN SRes([m.s EXCEPT !.storages[a] = ins.node], ins.st, <<>>)
                ELSE SRes([m.s EXCEPT !.storages[a] = TrieAfterHash(ins.node)],
                          "ok", TrieHash(ins.node)))))

\* calculate_state_root: the storage root of one account after its storage
\* changes; `order` is the order the map of slots is iterated in.
StorageRootAfter(s, post, a, order, ub) ==
    IF a \notin DOMAIN post.storages
    THEN With(storage_trie_mut(s, a), LAMBDA m :
             IF m.st # "ok" THEN m
             ELSE SRes([m.s EXCEPT !.storages[a] = TrieAfterHash(@)], "ok",
                       TrieHash(m.s.storages[a])))
    ELSE With(IF post.storages[a].wiped THEN clear_storage(s, a)
              ELSE storage_trie_mut(s, a), LAMBDA m :
        IF m.st # "ok" THEN m
        ELSE With(StorageInserts(m.s.storages[a], post.storages[a].storage,
                                 order, 1), LAMBDA ins :
            IF ins.st # "ok"
            THEN SRes([m.s EXCEPT !.storages[a] = ins.node], ins.st, <<>>)
            ELSE With(StorageRemoves(ins.node, post.storages[a].storage,
                                     order, 1, ub), LAMBDA rem :
                IF rem.st # "ok"
                THEN SRes([m.s EXCEPT !.storages[a] = rem.node], rem.st, <<>>)
                ELSE SRes([m.s EXCEPT !.storages[a] = TrieAfterHash(rem.node)],
                          "ok", TrieHash(rem.node)))))

\* The permutation of the slots of `a` that `orders` gives, <<>> if none.
SlotOrder(orders, a) == IF a \in DOMAIN orders THEN orders[a] ELSE <<>>

RECURSIVE UpdateAccounts(_, _, _, _, _, _)
\* UpdateAccounts that writes each account with a balance of zero.
UpdateAccounts_ZeroBalance(s, post, order, slot_orders, i, ub) ==
    IF i > Len(order) THEN SRes(s, "ok", <<>>)
    ELSE IF ~post.accounts[order[i]].some
    THEN UpdateAccounts(s, post, order, slot_orders, i + 1, ub)
    ELSE With(StorageRootAfter(s, post, order[i],
                               SlotOrder(slot_orders, order[i]), ub),
              LAMBDA sr :
        IF sr.st # "ok" THEN sr
        ELSE With(insert_path(
                      sr.s.state, order[i],
                      EncodeTrieAccount(TrieAccount(
                          post.accounts[order[i]].nonce,
                          U256_ZERO,
                          sr.ret,
                          IF post.accounts[order[i]].bytecode_hash = NoHash
                          THEN KECCAK256_EMPTY
                          ELSE post.accounts[order[i]].bytecode_hash))),
                  LAMBDA r :
            IF r.st # "ok" THEN SRes([sr.s EXCEPT !.state = r.node], r.st, <<>>)
            ELSE UpdateAccounts([sr.s EXCEPT !.state = r.node], post, order,
                                slot_orders, i + 1, ub)))

\* calculate_state_root: the loop over state.accounts; an account that is
\* None is left for the removals.
UpdateAccounts(s, post, order, slot_orders, i, ub) ==
    IF i > Len(order) THEN SRes(s, "ok", <<>>)
    ELSE IF ~post.accounts[order[i]].some
    THEN UpdateAccounts(s, post, order, slot_orders, i + 1, ub)
    ELSE With(StorageRootAfter(s, post, order[i],
                               SlotOrder(slot_orders, order[i]), ub),
              LAMBDA sr :
        IF sr.st # "ok" THEN sr
        ELSE With(insert_path(
                      sr.s.state, order[i],
                      EncodeTrieAccount(TrieAccount(
                          post.accounts[order[i]].nonce,
                          post.accounts[order[i]].balance,
                          sr.ret,
                          IF post.accounts[order[i]].bytecode_hash = NoHash
                          THEN KECCAK256_EMPTY
                          ELSE post.accounts[order[i]].bytecode_hash))),
                  LAMBDA r :
            IF r.st # "ok" THEN SRes([sr.s EXCEPT !.state = r.node], r.st, <<>>)
            ELSE UpdateAccounts([sr.s EXCEPT !.state = r.node], post, order,
                                slot_orders, i + 1, ub)))

RECURSIVE RemoveAccounts(_, _, _, _, _)
\* calculate_state_root: remove_account for each of removed_accounts.
RemoveAccounts(s, post, order, i, ub) ==
    IF i > Len(order) THEN SRes(s, "ok", <<>>)
    ELSE IF post.accounts[order[i]].some
    THEN RemoveAccounts(s, post, order, i + 1, ub)
    ELSE With(remove_account(s, order[i], ub), LAMBDA r :
             IF r.st # "ok" THEN r
             ELSE RemoveAccounts(r.s, post, order, i + 1, ub))

RECURSIVE StoragesOfAll(_, _, _, _, _)
\* The storage changes of every address of `todo` applied, whatever
\* state.accounts holds for it.
StoragesOfAll(s, post, todo, slot_orders, ub) ==
    IF todo = {} THEN SRes(s, "ok", <<>>)
    ELSE With(CHOOSE a \in todo : TRUE, LAMBDA a :
        With(StorageRootAfter(s, post, a, SlotOrder(slot_orders, a), ub),
             LAMBDA sr :
            IF sr.st # "ok" THEN sr
            ELSE StoragesOfAll(sr.s, post, todo \ {a}, slot_orders, ub)))

\* calculate_state_root that applies every entry of state.storages, also
\* those of an address state.accounts does not hold or marks deleted.
calculate_state_root_AllStorages(s, post, order, slot_orders, ub) ==
    With(StoragesOfAll(s, post,
                       {a \in DOMAIN post.storages :
                           a \notin DOMAIN post.accounts
                               \/ ~post.accounts[a].some},
                       slot_orders, ub), LAMBDA p :
        IF p.st # "ok" THEN p
        ELSE With(UpdateAccounts(p.s, post, order, slot_orders, 1, ub),
                  LAMBDA u :
            IF u.st # "ok" THEN u
            ELSE With(RemoveAccounts(u.s, post, order, 1, ub), LAMBDA r :
                IF r.st # "ok" THEN r
                ELSE SRes([r.s EXCEPT !.state = TrieAfterHash(@)], "ok",
                          TrieHash(r.s.state)))))

\* calculate_state_root that removes the deleted accounts before it writes
\* the updated ones.
calculate_state_root_RemovesFirst(s, post, order, slot_orders, ub) ==
    With(RemoveAccounts(s, post, order, 1, ub), LAMBDA r :
        IF r.st # "ok" THEN r
        ELSE With(UpdateAccounts(r.s, post, order, slot_orders, 1, ub),
                  LAMBDA u :
            IF u.st # "ok" THEN u
            ELSE SRes([u.s EXCEPT !.state = TrieAfterHash(@)], "ok",
                      TrieHash(u.s.state))))

\* calculate_state_root that drops the storage tries it holds.
calculate_state_root_DropsStorages(s, post, order, slot_orders, ub) ==
    With(UpdateAccounts(s, post, order, slot_orders, 1, ub), LAMBDA u :
        IF u.st # "ok" THEN u
        ELSE With(RemoveAccounts(u.s, post, order, 1, ub), LAMBDA r :
            IF r.st # "ok" THEN r
            ELSE SRes([r.s EXCEPT !.state = TrieAfterHash(@),
                                  !.storages = EmptyB256Map], "ok",
                      TrieHash(r.s.state))))

\* SimpleSparseState::calculate_state_root; `order` is the order state.accounts
\* is iterated in, `slot_orders` the order of each account's slots.
calculate_state_root(s, post, order, slot_orders, ub) ==
    With(UpdateAccounts(s, post, order, slot_orders, 1, ub), LAMBDA u :
        IF u.st # "ok" THEN u
        ELSE With(RemoveAccounts(u.s, post, order, 1, ub), LAMBDA r :
            IF r.st # "ok" THEN r
            ELSE SRes([r.s EXCEPT !.state = TrieAfterHash(@)], "ok",
                      TrieHash(r.s.state))))

\* ------------------------------------------------ reference hash builder
\* The keys of `m` that start with `prefix`.
KeysUnder(m, prefix) ==
    {k \in DOMAIN m : SubSeq(k, 1, Len(prefix)) = prefix}

RECURSIVE CommonLen(_, _)
\* The longest n such that all keys of S agree on their first n nibbles.
CommonLen(S, n) ==
    LET k0 == CHOOSE k \in S : TRUE
    IN  IF n < Len(k0) /\ \A k \in S : k[n + 1] = k0[n + 1]
        THEN CommonLen(S, n + 1) ELSE n

\* alloy_trie RlpNode::from_raw_rlp: a node shorter than 32 bytes is referenced
\* by its RLP, a longer one by its hash.
RlpNode(rlp) ==
    IF ByteLen(rlp) < 32 THEN rlp ELSE <<Byte(160)>> \o keccak256(rlp)

RECURSIVE RefEncode(_, _)
RECURSIVE RefBranchItems(_, _, _)
\* The 16 child items of the reference branch at `prefix`, from nibble i on.
RefBranchItems(m, prefix, i) ==
    IF i > 15 THEN <<>>
    ELSE LET sub == Append(prefix, i)
         IN  (IF KeysUnder(m, sub) = {} THEN <<Byte(EMPTY_STRING_CODE)>>
              ELSE RlpNode(RefEncode(m, sub)))
             \o RefBranchItems(m, prefix, i + 1)

\* Canonical MPT encoding of the node reached by `prefix` (alloy_trie
\* HashBuilder over the sorted leaves): leaf, extension or branch.
RefEncode(m, prefix) ==
    LET S == KeysUnder(m, prefix)
        k0 == CHOOSE k \in S : TRUE
        n == CommonLen(S, Len(prefix))
    IN  IF Cardinality(S) = 1
        THEN LET path == RlpBytes(encode_path_leaf(
                              SliceFrom(k0, Len(prefix)), TRUE))
                 value == RlpBytes(m[k0])
             IN  encode_list_header(ByteLen(path) + ByteLen(value))
                     \o path \o value
        ELSE IF n > Len(prefix)
        THEN LET path == RlpBytes(encode_path_leaf(
                              SubSeq(k0, Len(prefix) + 1, n), FALSE))
                 child == RlpNode(RefEncode(m, SubSeq(k0, 1, n)))
             IN  encode_list_header(ByteLen(path) + ByteLen(child))
                     \o path \o child
        ELSE LET items == RefBranchItems(m, prefix, 0)
                              \o <<Byte(EMPTY_STRING_CODE)>>
             IN  encode_list_header(ByteLen(items)) \o items

\* model_root / hash_builder_root: HashBuilder::root over the sorted map.
hash_builder_root(m) ==
    IF DOMAIN m = {} THEN EMPTY_ROOT_HASH ELSE keccak256(RefEncode(m, <<>>))

\* ---------------------------------------------------------- state machine
VARIABLES
    trie,   \* Trie.root of the trie under test (NoneNode: the empty trie)
    model,  \* the BTreeMap the same operations are applied to
    sparse, \* a trie revealed from a witness: its root, the operations
            \* applied to it and how the last one ended
    sparse_state, \* a SimpleSparseState: its fields, the root it was created
            \* for, the last call on it, how it ended and what it returned
            \* (arg and ret are sequences: <<post>>, <<Option<TrieAccount>>>)
    last    \* the last operation: its name, its outcome, whether its key was
            \* stored, and what it returned (for an insert of a fresh key: the
            \* key)

vars == <<trie, model, last, sparse, sparse_state>>

Last(op, st, present, ret) ==
    [op |-> op, st |-> st, present |-> present, ret |-> ret]

Sparse(revealed, root, op, arg, st, n) ==
    [revealed |-> revealed, root |-> root, op |-> op, arg |-> arg, st |-> st,
     n |-> n]

State(created, s, pre_state_root, op, arg, st, ret, reads, n) ==
    [created |-> created, s |-> s, pre_state_root |-> pre_state_root,
     op |-> op, arg |-> arg, st |-> st, ret |-> ret, reads |-> reads, n |-> n]

\* Trie::new()
Init ==
    /\ trie = NoneNode
    /\ model = EmptyMap
    /\ last = Last("new", "ok", FALSE, <<>>)
    /\ sparse = Sparse(FALSE, NoneNode, "new", <<>>, "ok", 0)
    /\ sparse_state = State(FALSE, SimpleSparseState(NoneNode, EmptyB256Map,
                                                     EmptyB256Map),
                            EMPTY_ROOT_HASH, "none", <<>>, "ok", <<>>, 0, 0)

\* Trie::insert(key, value), value not empty
Insert(k, v) ==
    /\ k \in DOMAIN model \/ Cardinality(DOMAIN model) < MaxKeys
    /\ LET r == insert_path(trie, k, v)
       IN  /\ trie' = r.node
           /\ model' = IF r.st = "ok" THEN MapInsert(model, k, v) ELSE model
           /\ last' = Last("insert", r.st, k \in DOMAIN model, <<>>)
           /\ UNCHANGED <<sparse, sparse_state>>

\* The outcomes of remove_path: one per build where the builds differ.
RemoveOutcomes(root, path) ==
    LET r == remove_path(root, path, "overflow")
    IN  IF r.st = "overflow"
        THEN {remove_path(root, path, ub) : ub \in BuildOutcomes}
        ELSE {r}

\* Trie::remove(key)
Remove(k) ==
    \E r \in RemoveOutcomes(trie, k) :
        /\ trie' = r.node
        /\ model' = IF r.st = "ok" THEN MapRemove(model, k) ELSE model
        /\ last' = Last("remove", r.st, k \in DOMAIN model, <<>>)
        /\ UNCHANGED <<sparse, sparse_state>>

\* Trie::remove_path(path) with a path shorter than a key
RemovePath(p) ==
    \E r \in RemoveOutcomes(trie, p) :
        /\ trie' = r.node
        /\ UNCHANGED model
        /\ last' = Last("remove_path", r.st, FALSE, <<>>)
        /\ UNCHANGED <<sparse, sparse_state>>

\* Trie::hash()
Hash ==
    /\ trie' = TrieAfterHash(trie)
    /\ UNCHANGED model
    /\ last' = Last("hash", "ok", FALSE, TrieHash(trie))
    /\ UNCHANGED <<sparse, sparse_state>>

Next ==
    \/ \E k \in Keys, v \in Values : Insert(k, v)
    \/ \E k \in Keys : Remove(k)
    \/ \E p \in PrefixPaths : RemovePath(p)
    \/ Hash

Spec == Init /\ [][Next]_vars

\* Display for Trie: the empty trie prints "Trie { EMPTY }", any other trie
\* starts with its root's kind and path (the lines of the children follow in
\* the source and are left out here).
fmt(root) ==
    IF root.kind = "None" THEN <<"Trie { EMPTY }">>
    ELSE <<root.kind, root.path>>

\* Trie::insert(key, Bytes::new()): no check of the value precedes insert_path
InsertEmpty(k) ==
    /\ k \in DOMAIN model \/ Cardinality(DOMAIN model) < MaxKeys
    /\ LET r == insert_path(trie, k, <<>>)
       IN  /\ trie' = r.node
           /\ model' = IF r.st = "ok" THEN MapInsert(model, k, <<>>) ELSE model
           /\ last' = Last("insert_empty", r.st, k \in DOMAIN model, <<>>)
           /\ UNCHANGED <<sparse, sparse_state>>

NextEmptyValue ==
    \/ Next
    \/ \E k \in Keys : InsertEmpty(k)

\* The operations of Spec and insert with an empty value.
SpecEmptyValue == Init /\ [][NextEmptyValue]_vars

\* Trie::insert(key, value) of a key that is not stored
InsertFresh(k, v) ==
    /\ k \notin DOMAIN model
    /\ Cardinality(DOMAIN model) < MaxKeys
    /\ LET r == insert_path(trie, k, v)
       IN  /\ trie' = r.node
           /\ model' = IF r.st = "ok" THEN MapInsert(model, k, v) ELSE model
           /\ last' = Last("insert", r.st, FALSE, k)
           /\ UNCHANGED <<sparse, sparse_state>>

NextInsertOrder ==
    \/ \E k \in Keys, v \in Values : InsertFresh(k, v)
    \/ Hash

\* A set of distinct keys inserted in any order, hashed at any time.
SpecInsertOrder == Init /\ [][NextInsertOrder]_vars

\* Ord for Nibbles of one length: lexicographic
KeyLess(a, b) ==
    \E i \in 1..Len(a) :
        /\ a[i] < b[i]
        /\ \A j \in 1..(i - 1) : a[j] = b[j]

MinKey(S) == CHOOSE k \in S : \A x \in S \ {k} : KeyLess(k, x)

RECURSIVE InsertSorted(_, _, _)
InsertSorted(root, m, todo) ==
    IF todo = {} THEN root
    ELSE LET k == MinKey(todo)
         IN  InsertSorted(insert_path(root, k, m[k]).node, m, todo \ {k})

\* simple_trie_root: a fresh trie with the pairs inserted in the map's order
simple_trie_root(m) == TrieHash(InsertSorted(NoneNode, m, DOMAIN m))

IsStrictPrefix(p, k) == Len(p) < Len(k) /\ SubSeq(k, 1, Len(p)) = p

\* ------------------------------------------------ a sparse and a full trie
RECURSIVE NodeRlps(_)
\* The RLP of each node under `node`; an extension and the branch it leads
\* to are two nodes.
NodeRlps(node) ==
    CASE node.kind = "Leaf" -> {LeafEncode(node)}
      [] node.kind = "Branch" ->
           {BranchEncode(node), BranchEncode([node EXCEPT !.path = <<>>])}
               \cup UNION {NodeRlps(node.children[i]) : i \in 1..16}
      [] OTHER -> {}

\* The nodes of a trie that are referenced by hash, which a witness may hold:
\* the root and every node of 32 bytes or more.
WitnessNodes(root) ==
    CASE root.kind = "Leaf" -> {LeafEncode(root)}
      [] root.kind = "Branch" ->
           {BranchEncode(root)}
               \cup {r \in NodeRlps(root) : ByteLen(r) >= 32}
      [] OTHER -> {}

\* Trie::insert on the full trie, before any witness is taken
BuildFull(k, v) ==
    /\ ~sparse.revealed
    /\ Cardinality(DOMAIN model \cup {k}) <= MaxFullKeys
    /\ Insert(k, v)

\* Trie::reveal_from_rlp(full.hash(), witness)
Reveal(W) ==
    /\ ~sparse.revealed
    /\ UNCHANGED sparse_state
    /\ LET r == reveal_from_rlp(TrieHash(trie), WitnessMap(W))
       IN  sparse' = Sparse(TRUE, r.node, "reveal", <<>>, r.st, 0)
    /\ trie' = TrieAfterHash(trie)
    /\ UNCHANGED model
    /\ last' = Last("hash", "ok", FALSE, TrieHash(trie))

SparseReady ==
    /\ sparse.revealed
    /\ sparse.st = "ok"
    /\ sparse.n < MaxSparseOps

\* Trie::insert(key, value) on the sparse and on the full trie
SparseInsert(k, v) ==
    /\ SparseReady
    /\ UNCHANGED sparse_state
    /\ k \in DOMAIN model \/ Cardinality(DOMAIN model) < MaxKeys
    /\ LET s == insert_path(sparse.root, k, v)
           r == insert_path(trie, k, v)
       IN  /\ sparse' = Sparse(TRUE, s.node, "insert", k, s.st, sparse.n + 1)
           /\ trie' = r.node
           /\ model' = IF r.st = "ok" THEN MapInsert(model, k, v) ELSE model
           /\ last' = Last("insert", r.st, k \in DOMAIN model, <<>>)

\* Trie::remove(key) on the sparse and on the full trie
SparseRemove(k) ==
    /\ SparseReady
    /\ UNCHANGED sparse_state
    /\ \E s \in RemoveOutcomes(sparse.root, k), r \in RemoveOutcomes(trie, k) :
          /\ sparse' = Sparse(TRUE, s.node, "remove", k, s.st, sparse.n + 1)
          /\ trie' = r.node
          /\ model' = IF r.st = "ok" THEN MapRemove(model, k) ELSE model
          /\ last' = Last("remove", r.st, k \in DOMAIN model, <<>>)

\* Trie::hash() on the sparse and on the full trie
SparseHash ==
    /\ SparseReady
    /\ UNCHANGED sparse_state
    /\ sparse' = Sparse(TRUE, TrieAfterHash(sparse.root), "hash", <<>>, "ok",
                        sparse.n + 1)
    /\ trie' = TrieAfterHash(trie)
    /\ UNCHANGED model
    /\ last' = Last("hash", "ok", FALSE, TrieHash(trie))

NextSparse ==
    \/ \E k \in Keys, v \in Values : BuildFull(k, v)
    \/ \E W \in SUBSET WitnessNodes(trie) : Reveal(W)
    \/ \E k \in Keys, v \in Values : SparseInsert(k, v)
    \/ \E k \in Keys : SparseRemove(k)
    \/ SparseHash

\* A full trie is built, a sparse trie is revealed from some of its nodes
\* and the same inserts and removes are applied to both.
SpecSparse == Init /\ [][NextSparse]_vars

\* --------------------------------------- a revealed branch with one child
\* The RLP of a branch with an inlined leaf [0x20, 0x01] at index 0 and
\* nothing else: d3 c2 20 01 80 ... 80.
root_rlp ==
    [i \in 1..20 |-> Byte(CASE i = 1 -> 211 [] i = 2 -> 194 [] i = 3 -> 32
                            [] i = 4 -> 1 [] OTHER -> EMPTY_STRING_CODE)]

\* The RLP of a branch whose one child is a leaf.
OneChildBranchRlp(idx, path, value) ==
    BranchEncode(ChildrenInsert(BranchNode(<<>>, ChildrenNew, 0, NoHash), idx,
                                LeafNode(path, value, NoHash)))

OneChildBranches ==
    {root_rlp} \cup
    {OneChildBranchRlp(idx, path, v) :
        idx \in Nibs, path \in {SubSeq(k, 1, 2) : k \in Keys}, v \in Values}

RevealedPaths == {<<n>> : n \in Nibs} \cup Keys

\* Trie::reveal_from_rlp(keccak256(&root_rlp), &map), map = {hash: root_rlp}
RevealBranch(rlp) ==
    /\ ~sparse.revealed
    /\ LET r == reveal_from_rlp(keccak256(rlp), WitnessMap({rlp}))
       IN  sparse' = Sparse(TRUE, r.node, "reveal", rlp, r.st, 0)
    /\ UNCHANGED <<trie, model, last, sparse_state>>

\* Trie::remove_path on the revealed trie
RevealedRemovePath(p) ==
    /\ SparseReady
    /\ \E s \in RemoveOutcomes(sparse.root, p) :
          sparse' = Sparse(TRUE, s.node, "remove_path", p, s.st, sparse.n + 1)
    /\ UNCHANGED <<trie, model, last, sparse_state>>

\* Trie::insert_path on the revealed trie
RevealedInsertPath(p, v) ==
    /\ SparseReady
    /\ LET s == insert_path(sparse.root, p, v)
       IN  sparse' = Sparse(TRUE, s.node, "insert_path", p, s.st, sparse.n + 1)
    /\ UNCHANGED <<trie, model, last, sparse_state>>

\* Trie::hash on the revealed trie
RevealedHash ==
    /\ SparseReady
    /\ sparse' = Sparse(TRUE, TrieAfterHash(sparse.root), "hash", <<>>, "ok",
                        sparse.n + 1)
    /\ UNCHANGED <<trie, model, last, sparse_state>>

NextRevealedBranch ==
    \/ \E rlp \in OneChildBranches : RevealBranch(rlp)
    \/ \E p \in RevealedPaths : RevealedRemovePath(p)
    \/ \E p \in RevealedPaths, v \in Values : RevealedInsertPath(p, v)
    \/ RevealedHash

\* A trie is revealed from the RLP of a branch with one child and operated on.
SpecRevealedBranch == Init /\ [][NextRevealedBranch]_vars

\* ------------------------------------------------------- the sparse state
\* Hashed addresses and hashed storage slots (three nibbles stand for the 64).
Address1 == <<0, 0, 0>>
Address2 == <<0, 15, 0>>
StateAddrs == {Address1, Address2}
Slot1 == <<0, 0, 0>>
Slot2 == <<15, 0, 0>>

U256_ONE == <<Byte(1)>>
\* a U256 of 32 bytes
U256_BIG == <<Tok(<<Byte(0)>>)>>

\* The storage of an account of the pre-state: none, one short slot (its
\* leaf is shorter than 32 bytes), two long slots.
WorldStorages ==
    {EmptyMap, (Slot1 :> U256_ONE), (Slot1 :> U256_BIG @@ Slot2 :> U256_BIG)}

\* The pre-states: each account that exists, with its storage.
Worlds ==
    {w \in UNION {[A -> WorldStorages] : A \in SUBSET StateAddrs} :
        Address2 \in DOMAIN w => w[Address2] = EmptyMap}

\* The storage trie a full node holds for `slots`
StorageTrie(slots) ==
    InsertSorted(NoneNode, [k \in DOMAIN slots |-> RlpBytes(slots[k])],
                 DOMAIN slots)

\* The account trie a full node holds for the pre-state `w`
AccountTrie(w) ==
    InsertSorted(NoneNode,
                 [a \in DOMAIN w |->
                     EncodeTrieAccount(TrieAccount(
                         U256_ONE, U256_ZERO, TrieHash(StorageTrie(w[a])),
                         KECCAK256_EMPTY))],
                 DOMAIN w)

\* ExecutionWitness.state for `w`: every node, or every node but one.
WorldNodes(w) ==
    WitnessNodes(AccountTrie(w))
        \cup UNION {WitnessNodes(StorageTrie(w[a])) : a \in DOMAIN w}

Witnesses(w) == {WorldNodes(w)} \cup {WorldNodes(w) \ {x} : x \in WorldNodes(w)}

\* HashedPostState { accounts, storages }
HashedPostState(accounts, storages) ==
    [accounts |-> accounts, storages |-> storages]

\* Option<Account> of HashedPostState.accounts
PostAccount(some, nonce, balance, bytecode_hash) ==
    [some |-> some, nonce |-> nonce, balance |-> balance,
     bytecode_hash |-> bytecode_hash]

\* HashedStorage { wiped, storage }
HashedStorage(wiped, slots) == [wiped |-> wiped, storage |-> slots]

PostAccounts ==
    UNION {[A -> {PostAccount(FALSE, <<>>, <<>>, NoHash),
                  PostAccount(TRUE, U256_ONE, U256_ONE, NoHash)}] :
              A \in SUBSET StateAddrs}

PostStorages ==
    {EmptyMap} \cup
    {(Address1 :> hs) :
        hs \in {HashedStorage(FALSE, (Slot1 :> U256_ONE)),
                HashedStorage(FALSE, (Slot1 :> U256_ZERO)),
                HashedStorage(TRUE, EmptyMap),
                HashedStorage(FALSE, (Slot1 :> U256_ZERO @@ Slot2 :> U256_ONE))}}

PostStates ==
    {HashedPostState(a, st) : a \in PostAccounts, st \in PostStorages}

\* HashedPostState::default()
EmptyPostState == HashedPostState(EmptyMap, EmptyMap)

\* The orders a hash map with the keys S may be iterated in.
IterationOrders(S) ==
    {o \in [1..Cardinality(S) -> S] :
        \A i, j \in 1..Cardinality(S) : o[i] = o[j] => i = j}

SlotOrders(post) ==
    {f \in [DOMAIN post.storages ->
               UNION {IterationOrders(DOMAIN post.storages[a].storage) :
                         a \in DOMAIN post.storages}] :
        \A a \in DOMAIN post.storages :
            f[a] \in IterationOrders(DOMAIN post.storages[a].storage)}

\* The outcomes of calculate_state_root: one per build of simple-trie where
\* the builds differ.
StateRootOutcomes(s, post, order, slot_orders) ==
    LET r == calculate_state_root(s, post, order, slot_orders, "overflow")
    IN  IF r.st = "overflow"
        THEN {calculate_state_root(s, post, order, slot_orders, ub) :
                 ub \in BuildOutcomes \ {"guarded"}}
        ELSE {r}

\* SimpleSparseState::new(witness, pre_state_root), for the pre-state whose
\* account trie is `t`
NewOver(t, W) ==
    /\ ~sparse_state.created
    /\ LET r == StateNew(W, TrieHash(t))
       IN  sparse_state' = State(TRUE, r.s, TrieHash(t), "new", <<>>, r.st,
                                 <<>>, 0, 0)
    /\ UNCHANGED <<trie, model, last, sparse>>

\* SimpleSparseState::new(witness, pre_state_root)
New(w, W) == NewOver(AccountTrie(w), W)

\* Values of the account trie that are not the RLP of a TrieAccount: a
\* string, and an account followed by one more byte.
UndecodableAccounts ==
    {<<Byte(1)>>,
     EncodeTrieAccount(TrieAccount(U256_ONE, U256_ZERO, EMPTY_ROOT_HASH,
                                   KECCAK256_EMPTY)) \o <<Byte(0)>>}

\* SimpleSparseState::new for a pre-state whose account trie holds, under
\* `a`, a value that is no account
NewUndecodable(w, a, v) ==
    /\ a \notin DOMAIN w
    /\ LET t == insert_path(AccountTrie(w), a, v).node
       IN  NewOver(t, WitnessNodes(t) \cup WorldNodes(w))

StateReady == sparse_state.created /\ sparse_state.st = "ok"

\* SimpleSparseState::account(address)
Account(a) ==
    /\ StateReady
    /\ LET r == account(sparse_state.s, a)
       IN  sparse_state' = [sparse_state EXCEPT
                               !.s = r.s, !.op = "account", !.arg = a,
                               !.st = r.st, !.ret = <<r.ret>>,
                               !.reads = @ + 1]
    /\ UNCHANGED <<trie, model, last, sparse>>

\* SimpleSparseState::storage(address, slot)
Storage(a, slot) ==
    /\ StateReady
    /\ LET r == storage(sparse_state.s, a, slot)
       IN  sparse_state' = [sparse_state EXCEPT
                               !.s = r.s, !.op = "storage", !.arg = <<a, slot>>,
                               !.st = r.st, !.ret = r.ret, !.reads = @ + 1]
    /\ UNCHANGED <<trie, model, last, sparse>>

\* SimpleSparseState::calculate_state_root(state); a call with no change is
\* not counted, and the post-state of the last call may be applied once more.
CalculateStateRoot(post) ==
    /\ StateReady
    /\ \/ post = EmptyPostState
       \/ sparse_state.n < MaxStateRoots
       \/ /\ sparse_state.n = MaxStateRoots
          /\ sparse_state.op = "calculate_state_root"
          /\ sparse_state.arg = <<post>>
    /\ \E order \in IterationOrders(DOMAIN post.accounts),
          slot_orders \in SlotOrders(post) :
          \E r \in StateRootOutcomes(sparse_state.s, post, order, slot_orders) :
              sparse_state' = [sparse_state EXCEPT
                                  !.s = r.s, !.op = "calculate_state_root",
                                  !.arg = <<post>>, !.st = r.st, !.ret = r.ret,
                                  !.n = IF post = EmptyPostState THEN @
                                        ELSE @ + 1]
    /\ UNCHANGED <<trie, model, last, sparse>>

NextState ==
    \/ \E w \in Worlds : \E W \in Witnesses(w) : New(w, W)
    \/ \E a \in StateAddrs :
          sparse_state.reads < MaxStateReads /\ Account(a)
    \/ \E a \in StateAddrs, slot \in {Slot1, Slot2} :
          sparse_state.reads < MaxStateReads /\ Storage(a, slot)
    \/ \E post \in PostStates : CalculateStateRoot(post)

\* A sparse state is created from a witness of a pre-state, read, and given
\* post-states to compute the root of.
SpecState == Init /\ [][NextState]_vars

NextReads ==
    \/ \E w \in Worlds : \E W \in Witnesses(w) : New(w, W)
    \/ \E w \in Worlds, a \in StateAddrs, v \in UndecodableAccounts :
          NewUndecodable(w, a, v)
    \/ \E a \in StateAddrs :
          sparse_state.reads < MaxReadCalls /\ Account(a)
    \/ \E a \in StateAddrs, slot \in {Slot1, Slot2} :
          sparse_state.reads < MaxReadCalls /\ Storage(a, slot)

\* A sparse state is created from a witness of a pre-state and read.
SpecReads == Init /\ [][NextReads]_vars

\* -------------------------------------------------- reveal from a witness
\* Trie::reveal_from_rlp(full.hash(), witness); the witness is kept in
\* sparse.arg.
RevealFrom(W) ==
    /\ ~sparse.revealed
    /\ ~sparse_state.created
    /\ LET r == reveal_from_rlp(TrieHash(trie), WitnessMap(W))
       IN  sparse' = Sparse(TRUE, r.node, "reveal", W, r.st, 0)
    /\ trie' = TrieAfterHash(trie)
    /\ last' = Last("hash", "ok", FALSE, TrieHash(trie))
    /\ UNCHANGED <<model, sparse_state>>

\* TrieNode::reveal on the root of the revealed trie, with a map that holds
\* the map of the reveal before.
RevealAgain(W) ==
    /\ SparseReady
    /\ sparse.op \in {"reveal", "reveal_again"}
    /\ sparse.arg \subseteq W
    /\ LET r == IF sparse.root.kind = "None" THEN Res(NoneNode, "ok")
                ELSE TrieNodeReveal(sparse.root, WitnessMap(W))
       IN  sparse' = Sparse(TRUE, r.node, "reveal_again", W, r.st,
                            sparse.n + 1)
    /\ UNCHANGED <<trie, model, last, sparse_state>>

\* Trie::remove(key) on the revealed trie, of a key the full trie stores
RemoveStored(k) ==
    /\ SparseReady
    /\ sparse.op = "reveal"
    /\ k \in DOMAIN model
    /\ \E s \in RemoveOutcomes(sparse.root, k) :
          sparse' = Sparse(TRUE, s.node, "remove", k, s.st, sparse.n + 1)
    /\ UNCHANGED <<trie, model, last, sparse_state>>

\* Trie::insert(key, value) on the revealed trie, of the key removed last
\* with the value the full trie stores for it
Reinsert ==
    /\ SparseReady
    /\ sparse.op = "remove"
    /\ LET s == insert_path(sparse.root, sparse.arg, model[sparse.arg])
       IN  sparse' = Sparse(TRUE, s.node, "reinsert", sparse.arg, s.st,
                            sparse.n + 1)
    /\ UNCHANGED <<trie, model, last, sparse_state>>

NextReveal ==
    \/ \E k \in Keys, v \in Values : ~sparse_state.created /\ BuildFull(k, v)
    \/ \E W \in SUBSET WitnessNodes(trie) : RevealFrom(W)
    \/ \E W \in SUBSET WitnessNodes(trie) : RevealAgain(W)
    \/ \E k \in Keys : RemoveStored(k)
    \/ Reinsert
    \/ \E w \in Worlds : \E W \in Witnesses(w) : trie = NoneNode /\ New(w, W)

\* A trie is revealed from some of the nodes of a full trie, revealed again,
\* and has a stored key removed and inserted again; or a sparse state is
\* created from a witness.
SpecReveal == Init /\ [][NextReveal]_vars

\* ------------------------------------------------- the order of a commit
\* A hashed address and a hashed slot that no pre-state holds; each falls
\* into an empty slot of the root branch of its trie.
Address3 == <<0, 1, 0>>
Slot3 == <<1, 0, 0>>

\* HashedPostState.accounts: an update, a deletion, a deletion with an
\* insertion, and an update of another account.
CommitAccounts ==
    {(Address1 :> PostAccount(TRUE, U256_ONE, U256_ONE, NoHash)),
     (Address1 :> PostAccount(FALSE, <<>>, <<>>, NoHash)),
     (Address1 :> PostAccount(FALSE, <<>>, <<>>, NoHash)
        @@ Address3 :> PostAccount(TRUE, U256_ONE, U256_ONE, NoHash)),
     (Address2 :> PostAccount(TRUE, U256_ONE, U256_ONE, NoHash))}

\* HashedPostState.storages: none, or for Address1 a removal with an
\* insertion, a wipe with an insertion, a wipe, and a removal.
CommitStorages ==
    {EmptyMap} \cup
    {(Address1 :> hs) :
        hs \in {HashedStorage(FALSE, (Slot1 :> U256_ZERO @@ Slot3 :> U256_ONE)),
                HashedStorage(TRUE, (Slot2 :> U256_ONE)),
                HashedStorage(TRUE, EmptyMap),
                HashedStorage(FALSE, (Slot1 :> U256_ZERO))}}

CommitPostStates ==
    {HashedPostState(a, st) : a \in CommitAccounts, st \in CommitStorages}

\* A slot whose leaf differs from the leaf of Slot1 with the same value
Slot4 == <<15, 0, 15>>

\* The pre-states: Address1 with one short slot or two long ones, alone or
\* beside Address2, which has no storage.
CommitWorlds ==
    {(Address1 :> st) @@ rest :
        st \in {(Slot1 :> U256_ONE), (Slot1 :> U256_BIG @@ Slot4 :> U256_BIG)},
        rest \in {EmptyMap, (Address2 :> EmptyMap)}}

NextCommit ==
    \/ \E w \in CommitWorlds : \E W \in Witnesses(w) : New(w, W)
    \/ \E a \in {Address1} :
          sparse_state.reads < MaxStateReads /\ Account(a)
    \/ \E post \in CommitPostStates : CalculateStateRoot(post)

\* A sparse state is created from a witness of a pre-state, read, and given
\* post-states that update and delete accounts and storage slots.
SpecCommit == Init /\ [][NextCommit]_vars

\* ------------------------------------------------- a children array alone
\* BranchNodeChildrenArray::new(); the array is kept as the children and the
\* flags of sparse.root.
ChildrenArrayNew ==
    /\ ~sparse.revealed
    /\ sparse' = Sparse(TRUE, BranchNode(<<>>, ChildrenNew, 0, NoHash),
                        "children_new", <<>>, "ok", 0)
    /\ UNCHANGED <<trie, model, last, sparse_state>>

\* BranchNodeChildrenArray::insert(idx, node)
ArrayInsert(idx, v) ==
    /\ sparse.op \in {"children_new", "children_insert", "children_remove",
                       "one_child_left"}
    /\ \/ HasBit(sparse.root.flags, idx)
       \/ Cardinality({i \in 0..15 : HasBit(sparse.root.flags, i)})
             < MaxChildren
    /\ sparse' = Sparse(TRUE,
                        ChildrenInsert(sparse.root, idx,
                                       LeafNode(<<>>, v, NoHash)),
                        "children_insert", <<idx>>, "ok", 0)
    /\ UNCHANGED <<trie, model, last, sparse_state>>

\* BranchNodeChildrenArray::remove(idx)
ArrayRemove(idx) ==
    /\ sparse.op \in {"children_new", "children_insert", "children_remove",
                       "one_child_left"}
    /\ sparse' = Sparse(TRUE, ChildrenRemove(sparse.root, idx),
                        "children_remove", <<idx>>, "ok", 0)
    /\ UNCHANGED <<trie, model, last, sparse_state>>

\* BranchNodeChildrenArray::one_child_left(), in either copy and any build:
\* arg is <<1, idx>> for Some((idx, _)) and <<0, idx>> otherwise.
OneChildLeft ==
    /\ sparse.op \in {"children_new", "children_insert", "children_remove",
                       "one_child_left"}
    /\ \E ub \in BuildOutcomes :
          LET r == only_one_child_left(sparse.root, ub)
          IN  sparse' = Sparse(TRUE, sparse.root, "one_child_left",
                              <<IF r.some THEN 1 ELSE 0, r.idx>>, r.st, 0)
    /\ UNCHANGED <<trie, model, last, sparse_state>>

NextChildren ==
    \/ ChildrenArrayNew
    \/ \E idx \in 0..15, v \in Values : ArrayInsert(idx, v)
    \/ \E idx \in 0..15 : ArrayRemove(idx)
    \/ OneChildLeft

\* A children array is filled, emptied and asked for its one child.
SpecChildren == Init /\ [][NextChildren]_vars

\* ---------------------------------------------------------------------------
\* Properties of the full trie
\* ---------------------------------------------------------------------------

\* C1: after every insert and remove of bounded keys and non-empty values,
\* the trie's root hash equals the root the reference hash builder computes
\* over the same key-value map.
C1_RootAgreesWithHashBuilder == TrieHash(trie) = hash_builder_root(model)

\* A key has just been removed from a trie that still holds two keys under a
\* branch: inserts, a split and a collapse or a dropped child have happened.
C1_Witness ==
    /\ last.op = "remove"
    /\ last.present
    /\ Cardinality(DOMAIN model) = 2
    /\ trie.kind = "Branch"
    /\ TrieHash(trie) # EMPTY_ROOT_HASH

\* C3: get(k) returns the value of the last insert of k that no remove of k
\* followed, and None otherwise; so an insert or remove of one key changes
\* what get returns for no other key.
C3_GetIsMapLookup ==
    \A k \in Keys :
        get_path(trie, k) = IF k \in DOMAIN model
                            THEN GetRes("ok", TRUE, model[k])
                            ELSE GetNone

\* An insert has replaced the value of a stored key while another key is
\* stored and a third shares the root's path without being stored.
C3_Witness ==
    /\ last.op = "insert"
    /\ last.present
    /\ Cardinality(DOMAIN model) = 2
    /\ \E k \in Keys \ DOMAIN model : get_path(trie, k) = GetNone

\* C5: insert with an empty value fails and leaves the trie as it was.
C5_EmptyValueRejected ==
    [][last'.op = "insert_empty" => (last'.st # "ok" /\ trie' = trie)]_vars

\* C7: remove of a key that is not stored, a strict prefix of a stored key
\* included, completes, leaves the root hash as it was and leaves get of
\* every stored key as it was.
C7_RemoveAbsentIsNoop ==
    [][(last'.op \in {"remove", "remove_path"} /\ ~last'.present)
          => /\ last'.st = "ok"
             /\ TrieHash(trie') = TrieHash(trie)
             /\ \A k \in DOMAIN model :
                    get_path(trie', k) = get_path(trie, k)]_vars

\* C8: the root hash of a set of distinct keys does not depend on the order
\* of their insertion: in whatever order they were inserted, it is the root
\* of the trie built in the keys' sorted order.
C8_InsertOrderIndependent == TrieHash(trie) = simple_trie_root(model)

\* Three keys are stored and the last one inserted is not the greatest, so
\* the order of insertion was not the sorted one.
C8_Witness ==
    /\ last.op = "insert"
    /\ Cardinality(DOMAIN model) = 3
    /\ \E x \in DOMAIN model : KeyLess(last.ret, x)

\* C9: once every inserted key is removed the root is None, the hash is
\* EMPTY_ROOT_HASH and the trie prints as "Trie { EMPTY }"; one more remove
\* leaves it so.
C9_EmptiedTrieIsEmpty ==
    DOMAIN model = {} =>
        /\ trie = NoneNode
        /\ TrieHash(trie) = EMPTY_ROOT_HASH
        /\ fmt(trie) = <<"Trie { EMPTY }">>

\* The last stored key has just been removed.
C9_Witness ==
    /\ last.op = "remove"
    /\ last.present
    /\ DOMAIN model = {}

\* C10: get_path of a strict prefix of a stored key returns None and does
\* not fail.
C10_GetPrefixIsNone ==
    \A p \in PrefixPaths :
        (\E k \in DOMAIN model : IsStrictPrefix(p, k))
            => get_path(trie, p) = GetNone

\* ---------------------------------------------------------------------------
\* Properties of revealed tries
\* ---------------------------------------------------------------------------

C6_OneChildCollapseSafe ==
    [][(/\ sparse.op = "reveal"
        /\ sparse.arg = root_rlp
        /\ sparse'.op = "remove_path"
        /\ sparse'.arg = <<0>>)
          => /\ sparse'.st = "ok"
             /\ TrieHash(sparse'.root) = EMPTY_ROOT_HASH]_vars

\* ---------------------------------------------------------------------------
\* Properties of the sparse state
\* ---------------------------------------------------------------------------

\* C4: calculate_state_root called with an empty post-state (no account and
\* no storage changes) completes and returns the pre-state root, that is the
\* root of the account trie as it stood before the call and, on a state no
\* change was applied to, the pre_state_root it was created for; the account
\* trie and every storage trie are after the call what they were before it.
C4_EmptyPostStateKeepsRoot ==
    [][(/\ StateReady
        /\ sparse_state'.op = "calculate_state_root"
        /\ sparse_state'.arg = <<EmptyPostState>>)
       => (/\ sparse_state'.st = "ok"
           /\ sparse_state'.ret = TrieHash(sparse_state.s.state)
           /\ sparse_state.n = 0
                 => sparse_state'.ret = sparse_state.pre_state_root
           /\ sparse_state'.s.state = sparse_state.s.state
           /\ sparse_state'.s.storages = sparse_state.s.storages)]_vars

\* An empty post-state was given to a state revealed from a witness, after a
\* post-state with changes, while it holds a storage trie.
C4_Witness ==
    /\ sparse_state.op = "calculate_state_root"
    /\ sparse_state.arg = <<EmptyPostState>>
    /\ sparse_state.st = "ok"
    /\ sparse_state.n = 1
    /\ sparse_state.s.state.kind = "Branch"
    /\ \E a \in DOMAIN sparse_state.s.storages :
          sparse_state.s.storages[a].kind # "None"

\* ---------------------------------------------------------------------------
\* Properties of reveal
\* ---------------------------------------------------------------------------
RECURSIVE Uncached(_)
\* `node` with no hash cached in any of its nodes
Uncached(node) ==
    IF node.kind = "Branch"
    THEN [node EXCEPT !.hash = NoHash,
                      !.children = [i \in 1..16 |-> Uncached(node.children[i])]]
    ELSE IF node.kind = "None" THEN node
    ELSE [node EXCEPT !.hash = NoHash]

RECURSIVE Materializes(_, _)
\* b is a up to Digest placement: the same kinds, paths, child slots and
\* values, except that where a has a Digest b may have the subtree the Digest
\* names, that is a subtree whose encoding has the hash the Digest stands for.
Materializes(a, b) ==
    IF a.kind = "Digest"
    THEN TrieHash(Uncached(b)) = TrieHash(Uncached(a))
    ELSE /\ b.kind = a.kind
         /\ b.path = a.path
         /\ b.value = a.value
         /\ a.kind = "Branch" =>
               \A i \in 1..16 : Materializes(a.children[i], b.children[i])

\* C11: reveal never changes the root hash: the trie revealed from the root
\* hash of a full trie and any subset of its nodes is built without failure
\* and hashes to that root hash, a root the subset does not hold stays the
\* Digest of the root hash, and SimpleSparseState::new succeeds with a state
\* trie that hashes to pre_state_root whatever the witness holds.
C11_RevealKeepsRootHash ==
    /\ sparse.op = "reveal" =>
          /\ sparse.st = "ok"
          /\ TrieHash(sparse.root) = TrieHash(trie)
          /\ (/\ TrieHash(trie) # EMPTY_ROOT_HASH
              /\ TrieHash(trie) \notin DOMAIN WitnessMap(sparse.arg))
                => sparse.root = DigestNode(<<>>, TrieHash(trie),
                                            TrieHash(trie))
    /\ sparse_state.op = "new" =>
          /\ sparse_state.st = "ok"
          /\ TrieHash(sparse_state.s.state) = sparse_state.pre_state_root

\* A trie revealed from a witness that holds the root but not one of the
\* root's children.
C11_Witness ==
    /\ sparse.op = "reveal"
    /\ sparse.st = "ok"
    /\ sparse.root.kind = "Branch"
    /\ \E i \in 1..16 : sparse.root.children[i].kind = "Digest"

\* C12: reveal round trip: the trie revealed from the root hash of a full
\* trie T and all of T's node encodings hashes to T.hash(), has T's structure
\* up to Digest placement, and get(k) returns T's value for every key of T.
C12_RevealRoundTrip ==
    (sparse.op = "reveal" /\ sparse.arg = WitnessNodes(trie)) =>
        /\ sparse.st = "ok"
        /\ TrieHash(sparse.root) = TrieHash(trie)
        /\ Materializes(sparse.root, trie)
        /\ \A k \in DOMAIN model :
              get_path(sparse.root, k) = GetRes("ok", TRUE, model[k])

\* C13: reveal is idempotent and monotone: revealing a revealed trie again
\* with the same map leaves it equal; with a map m2 that contains the first
\* map m1 the result, and the trie revealed from the root hash with m2, are
\* the trie revealed with m1 except that Digests are replaced by the subtrees
\* they name; the root hash stays the same.
C13_RevealIdempotentMonotone ==
    [][sparse'.op = "reveal_again" =>
          /\ sparse'.st = "ok"
          /\ TrieHash(sparse'.root) = TrieHash(sparse.root)
          /\ sparse'.arg = sparse.arg => sparse'.root = sparse.root
          /\ Materializes(sparse.root, sparse'.root)
          /\ Materializes(sparse.root,
                          reveal_from_rlp(TrieHash(trie),
                                          WitnessMap(sparse'.arg)).node)]_vars

\* C14: on a trie revealed from a witness, remove(k) of a stored key changes
\* the root hash and a following insert(k, v) of the value k had restores the
\* root hash of the full trie.
C14_RemoveReinsertRestoresRoot ==
    /\ (sparse.op = "remove" /\ sparse.st = "ok") =>
          TrieHash(sparse.root) # TrieHash(trie)
    /\ (sparse.op = "reinsert" /\ sparse.st = "ok") =>
          TrieHash(sparse.root) = TrieHash(trie)

\* ---------------------------------------------------------------------------
\* Properties of the reads of the sparse state
\* ---------------------------------------------------------------------------
\* The pre-state a sparse state was created for
WorldOf(root) == CHOOSE w \in Worlds : TrieHash(AccountTrie(w)) = root

\* The value of a slot in the pre-state, zero where there is none
WorldValue(w, a, slot) ==
    IF a \in DOMAIN w /\ slot \in DOMAIN w[a] THEN w[a][slot] ELSE U256_ZERO

\* C15: storage(address, slot) reads only the storage trie memoized for the
\* address: with no storage trie memoized (account(address) was not called)
\* it returns zero whatever the witness holds; once account(address) has
\* memoized one, a storage call that completes returns the value the
\* pre-state stores for the slot, zero when it stores none.
C15_StorageReadsMemo ==
    [][(/\ StateReady
        /\ sparse_state'.op = "storage"
        /\ sparse_state'.reads = sparse_state.reads + 1
        /\ \E w \in Worlds :
              TrieHash(AccountTrie(w)) = sparse_state.pre_state_root)
       => LET a    == sparse_state'.arg[1]
              slot == sparse_state'.arg[2]
          IN  /\ sparse_state'.s = sparse_state.s
              /\ a \notin DOMAIN sparse_state.s.storages =>
                    /\ sparse_state'.st = "ok"
                    /\ sparse_state'.ret = U256_ZERO
              /\ (a \in DOMAIN sparse_state.s.storages
                     /\ sparse_state'.st = "ok") =>
                    sparse_state'.ret =
                        WorldValue(WorldOf(sparse_state.pre_state_root),
                                   a, slot)]_vars

\* storage returned a value of 32 bytes from a memoized storage trie.
C15_Witness ==
    /\ sparse_state.op = "storage"
    /\ sparse_state.st = "ok"
    /\ sparse_state.ret = U256_BIG

\* ---------------------------------------------------------------------------
\* Properties of calculate_state_root and of failures
\* ---------------------------------------------------------------------------

\* C16: errors are values: account, storage and calculate_state_root end by
\* returning, with Ok or with an error value, and never by a panic, also
\* when they have to descend into a subtree the witness left a Digest.
C16_ErrorsAreValues ==
    sparse_state.op \in {"account", "storage", "calculate_state_root"} =>
        sparse_state.st \in {"ok", "err"}

\* The post-state that sets the balance of the account `a` to one
BalanceBump(a) ==
    HashedPostState((a :> PostAccount(TRUE, U256_ONE, U256_ONE, NoHash)),
                    EmptyMap)

\* A state built anew from the witness and the pre-state root of `st`
FreshState(st) ==
    SimpleSparseState(reveal_from_rlp(st.pre_state_root,
                                      st.s.rlp_by_digest).node,
                      EmptyB256Map, st.s.rlp_by_digest)

\* C17: balance bump: calculate_state_root with a post-state that changes
\* the balance of one existing account, when it completes, returns a root
\* that is not the pre-state root and is the root a fresh instance built
\* from the same witness returns for it; applied again to the same instance
\* the post-state returns the identical root.
C17_BalanceBumpDeterministic ==
    [][\A a \in StateAddrs :
          (/\ StateReady
           /\ sparse_state'.op = "calculate_state_root"
           /\ sparse_state'.arg = <<BalanceBump(a)>>
           /\ sparse_state'.n = sparse_state.n + 1
           /\ sparse_state'.st = "ok"
           /\ \E w \in Worlds :
                 /\ a \in DOMAIN w
                 /\ TrieHash(AccountTrie(w)) = sparse_state.pre_state_root)
          => /\ sparse_state.n = 0 =>
                   /\ sparse_state'.ret # sparse_state.pre_state_root
                   /\ sparse_state'.ret =
                         calculate_state_root(FreshState(sparse_state),
                                              BalanceBump(a), <<a>>, EmptyMap,
                                              "overflow").ret
             /\ (/\ sparse_state.op = "calculate_state_root"
                 /\ sparse_state.arg = <<BalanceBump(a)>>)
                   => sparse_state'.ret = sparse_state.ret]_vars

\* The balance bump of an existing account was applied twice to one state.
C17_Witness ==
    /\ sparse_state.op = "calculate_state_root"
    /\ sparse_state.st = "ok"
    /\ sparse_state.n = 2
    /\ sparse_state.ret # sparse_state.pre_state_root
    /\ \E a \in StateAddrs :
          /\ sparse_state.arg = <<BalanceBump(a)>>
          /\ \E w \in Worlds :
                /\ TrieHash(AccountTrie(w)) = sparse_state.pre_state_root
                /\ a \in DOMAIN w

\* C18: account(address) reports a value of the account trie that fails to
\* decode as Ok(None), as it reports an absent key, and memoizes no storage
\* trie for the address: the state is left as it was.
C18_UndecodableAccountIsNone ==
    [][(/\ StateReady
        /\ sparse_state'.op = "account"
        /\ sparse_state'.reads = sparse_state.reads + 1
        /\ get_path(sparse_state.s.state, sparse_state'.arg).value
              \in UndecodableAccounts)
       => (/\ sparse_state'.st = "ok"
           /\ sparse_state'.ret = <<NoAccount>>
           /\ sparse_state'.s = sparse_state.s
           /\ sparse_state'.arg \notin DOMAIN sparse_state'.s.storages)]_vars

\* account was called for an address whose value is no account.
C18_Witness ==
    /\ sparse_state.op = "account"
    /\ sparse_state.st = "ok"
    /\ sparse_state.reads = 1
    /\ get_path(sparse_state.s.state, sparse_state.arg).value
          \in UndecodableAccounts

\* ---------------------------------------------------------------------------
\* Properties of operations that reach a Digest
\* ---------------------------------------------------------------------------

\* C19: Digest rule for insert and get, for a key that reaches the Digest D
\* at the root of a revealed trie: when the key diverges inside D.path
\* (common prefix shorter than D.path), get returns None and insert succeeds
\* and leaves a Branch on the common prefix that holds D, its path shortened
\* by the common prefix and one nibble, and the new Leaf; when the key has
\* all of D.path as a prefix, get and insert fail with unresolved node
\* access.
C19_DigestRule ==
    [][(SparseReady /\ sparse.root.kind = "Digest") =>
          \A k \in Keys :
              LET D   == sparse.root
                  cpl == common_prefix_length(k, D.path)
                  ins == sparse'.op = "insert" /\ sparse'.arg = k
                            /\ sparse'.n = sparse.n + 1
              IN  IF cpl < Len(D.path)
                  THEN /\ get_path(D, k) = GetNone
                       /\ ins =>
                            /\ sparse'.st = "ok"
                            /\ sparse'.root =
                                 BranchNode(
                                   SubSeq(k, 1, cpl),
                                   [i \in 1..16 |->
                                     IF i = D.path[cpl + 1] + 1
                                     THEN DigestNode(
                                            SubSeq(D.path, cpl + 2,
                                                   Len(D.path)),
                                            D.value, NoHash)
                                     ELSE IF i = k[cpl + 1] + 1
                                     THEN LeafNode(SubSeq(k, cpl + 2, Len(k)),
                                                   model'[k], NoHash)
                                     ELSE NoneNode],
                                   Pow2(D.path[cpl + 1]) + Pow2(k[cpl + 1]),
                                   NoHash)
                  ELSE /\ get_path(D, k).st = "unresolved"
                       /\ ins => (sparse'.st = "unresolved"
                                     /\ sparse'.root = clear_cache(D))]_vars

\* An insert has split the Digest at the root: the root is a Branch that
\* holds a Digest with what is left of its path, and a Leaf.
C19_Witness ==
    /\ sparse.op = "insert"
    /\ sparse.st = "ok"
    /\ sparse.root.kind = "Branch"
    /\ \E i, j \in 1..16 :
          /\ sparse.root.children[i].kind = "Digest"
          /\ sparse.root.children[i].path # <<>>
          /\ sparse.root.children[i].hash = NoHash
          /\ sparse.root.children[j].kind = "Leaf"

RECURSIVE MeetsDigest(_, _)
\* The descent from `node` along `path` meets a Digest whose path is a
\* strict prefix of what is left of `path`.
MeetsDigest(node, path) ==
    CASE node.kind = "Digest" -> IsStrictPrefix(node.path, path)
      [] node.kind = "Branch" ->
           /\ IsStrictPrefix(node.path, path)
           /\ MeetsDigest(ChildAt(node, path[Len(node.path) + 1]),
                          SubSeq(path, Len(node.path) + 2, Len(path)))
      [] OTHER -> FALSE

\* C20: remove(k) that meets, during its descent, a Digest whose path is a
\* strict prefix of what is left of the key succeeds silently and leaves the
\* trie unchanged.
C20_RemoveThroughDigestIsSilent ==
    [][(/\ SparseReady
        /\ sparse'.op = "remove"
        /\ sparse'.n = sparse.n + 1
        /\ MeetsDigest(sparse.root, sparse'.arg))
       => (/\ sparse'.st = "ok"
           /\ Uncached(sparse'.root) = Uncached(sparse.root)
           /\ TrieHash(sparse'.root) = TrieHash(sparse.root))]_vars

\* ---------------------------------------------------------------------------
\* Properties of the collapse of a branch
\* ---------------------------------------------------------------------------
\* The indexes of the child slots of a branch that hold a node
Occupied(B) == {i \in 0..15 : ChildAt(B, i).kind # "None"}

\* remove(path) reaches the Branch B, finds at the dispatch nibble of the path
\* a Leaf with the rest of the path, and B has one more child.
LeavesOneChild(B, path) ==
    /\ B.kind = "Branch"
    /\ IsStrictPrefix(B.path, path)
    /\ ChildAt(B, path[Len(B.path) + 1]).kind = "Leaf"
    /\ ChildAt(B, path[Len(B.path) + 1]).path =
          SubSeq(path, Len(B.path) + 2, Len(path))
    /\ Cardinality(Occupied(B)) = 2

\* The child of B that remove(path) leaves
ChildLeft(B, path) == CHOOSE d \in Occupied(B) : d # path[Len(B.path) + 1]

\* The node that takes the place of B, left with the one child at d
Merged(B, d) ==
    IF ChildAt(B, d).kind = "Leaf"
    THEN LeafNode((B.path \o <<d>>) \o ChildAt(B, d).path, ChildAt(B, d).value,
                  NoHash)
    ELSE BranchNode((B.path \o <<d>>) \o ChildAt(B, d).path,
                    ChildAt(B, d).children, ChildAt(B, d).flags, NoHash)

\* C21: branch collapse on remove: when a remove leaves a Branch B (the root,
\* or a child of a root that keeps two children) with exactly one child at
\* nibble d, B is replaced by a Leaf with path B.path ++ [d] ++ child.path
\* and the child's value if the child is a Leaf, by a Branch with that path
\* owning the child's children if it is a Branch, and the remove fails with
\* unresolved node access if the child is a Digest.
C21_BranchCollapse ==
    [][(/\ SparseReady
        /\ sparse'.op = "remove"
        /\ sparse'.n = sparse.n + 1)
       => LET k == sparse'.arg
              R == sparse.root
          IN  /\ LeavesOneChild(R, k) =>
                    IF ChildAt(R, ChildLeft(R, k)).kind = "Digest"
                    THEN sparse'.st = "unresolved"
                    ELSE /\ sparse'.st = "ok"
                         /\ sparse'.root = Merged(R, ChildLeft(R, k))
              /\ (/\ R.kind = "Branch"
                  /\ IsStrictPrefix(R.path, k)
                  /\ Cardinality(Occupied(R)) >= 2
                  /\ LeavesOneChild(ChildAt(R, k[Len(R.path) + 1]),
                                    SubSeq(k, Len(R.path) + 2, Len(k))))
                    => LET idx  == k[Len(R.path) + 1]
                           B    == ChildAt(R, idx)
                           rest == SubSeq(k, Len(R.path) + 2, Len(k))
                       IN  IF ChildAt(B, ChildLeft(B, rest)).kind = "Digest"
                           THEN sparse'.st = "unresolved"
                           ELSE /\ sparse'.st = "ok"
                                /\ ChildAt(sparse'.root, idx) =
                                      Merged(B, ChildLeft(B, rest))]_vars

\* A remove on the revealed trie ended with unresolved node access at a
\* root Branch left with one child, a Digest.
C21_Witness ==
    /\ sparse.op = "remove"
    /\ sparse.st = "unresolved"
    /\ sparse.root.kind = "Branch"
    /\ Cardinality(Occupied(sparse.root)) = 1
    /\ \E d \in Occupied(sparse.root) : ChildAt(sparse.root, d).kind = "Digest"

\* ---------------------------------------------------------------------------
\* Invariants of the nodes
\* ---------------------------------------------------------------------------
RECURSIVE BranchesHaveTwo(_)
\* Every Branch at or under `node` has at least two children, and its flags
\* have the bits of the slots that hold one.
BranchesHaveTwo(node) ==
    node.kind = "Branch" =>
        /\ Cardinality(Occupied(node)) >= 2
        /\ node.flags = FlagsOf(node.children)
        /\ \A i \in 1..16 : BranchesHaveTwo(node.children[i])

\* C22: invariant I1: in every state reached from Trie::new() by insert and
\* remove, every Branch, the root included, has at least two children; no
\* Branch with one child or none remains after an insert or a remove.
C22_BranchesHaveTwoChildren == BranchesHaveTwo(trie)

\* A remove has left the root with one child, a Branch, and the two were
\* merged: the root is a Branch with a path of two nibbles.
C22_Witness ==
    /\ last.op = "remove"
    /\ last.st = "ok"
    /\ last.present
    /\ trie.kind = "Branch"
    /\ Len(trie.path) = 2

RECURSIVE CachesSound(_)
\* Every node at or under `node` has no hash cached, or the hash of its
\* encoding as it stands.
CachesSound(node) ==
    node.kind # "None" =>
        /\ node.hash = NoHash \/ node.hash = NodeHash(Uncached(node))
        /\ node.kind = "Branch" =>
              \A i \in 1..16 : CachesSound(node.children[i])

\* C23: invariant I3: in every state reached by reveal, insert, remove and
\* hash, the state an insert or a remove leaves when it fails on a Digest
\* included, the hash cache of each node is unset or is the hash of the
\* node's current encoding.
C23_CachesSound ==
    /\ CachesSound(trie)
    /\ sparse.revealed => CachesSound(sparse.root)

\* ---------------------------------------------------------------------------
\* Properties of the hash caches
\* ---------------------------------------------------------------------------
\* The places of the nodes of a trie: the nibbles a descent has consumed when
\* it enters the node (the node's own path not included).
Positions == {<<>>} \cup {SubSeq(k, 1, n) : k \in Keys, n \in 1..3}

RECURSIVE NodeAt(_, _)
\* The node of the trie under `node` that a descent enters after the nibbles
\* P, NoneNode if there is none.
NodeAt(node, P) ==
    IF P = <<>> THEN node
    ELSE IF node.kind = "Branch" /\ IsStrictPrefix(node.path, P)
    THEN NodeAt(ChildAt(node, P[Len(node.path) + 1]),
                SubSeq(P, Len(node.path) + 2, Len(P)))
    ELSE NoneNode

IsPrefix(P, k) == Len(P) <= Len(k) /\ SubSeq(k, 1, Len(P)) = P

\* C24: cache frame: insert(k, v) and remove(k) that descend from the root
\* (every insert, and every remove but the one on a root Leaf, which is
\* compared and not descended into) leave every node on the descent path of k
\* with its cache cleared, and leave every node off that path, with its
\* subtree and the caches in it, exactly as it was; the one node off the path
\* that a remove may take away is the last child of a collapsed Branch, whose
\* value or children are then found in a node on the path.
C24_CacheFrame ==
    [][(/\ SparseReady
        /\ sparse'.op \in {"insert", "remove"}
        /\ sparse'.n = sparse.n + 1)
       => LET k  == sparse'.arg
              T  == sparse.root
              T2 == sparse'.root
          IN  /\ (sparse'.op = "insert" \/ T.kind # "Leaf") =>
                    \A P \in Positions :
                        IsPrefix(P, k) => NodeAt(T2, P).hash = NoHash
              /\ \A P \in Positions :
                    (~IsPrefix(P, k) /\ NodeAt(T, P) # NoneNode) =>
                        \/ NodeAt(T2, P) = NodeAt(T, P)
                        \/ /\ sparse'.op = "remove"
                           /\ NodeAt(T2, P) = NoneNode
                           /\ \E Q \in Positions :
                                 /\ IsPrefix(Q, k)
                                 /\ NodeAt(T2, Q).kind = NodeAt(T, P).kind
                                 /\ NodeAt(T2, Q).value = NodeAt(T, P).value
                                 /\ NodeAt(T2, Q).children =
                                       NodeAt(T, P).children]_vars

\* An insert on a revealed trie has cleared the cache of the root Branch and
\* of the Leaf it wrote, and a Leaf beside it still has its cache.
C24_Witness ==
    /\ sparse.op = "insert"
    /\ sparse.st = "ok"
    /\ sparse.n = 1
    /\ sparse.root.kind = "Branch"
    /\ sparse.root.hash = NoHash
    /\ \E i, j \in 1..16 :
          /\ sparse.root.children[i].kind = "Leaf"
          /\ sparse.root.children[i].hash # NoHash
          /\ sparse.root.children[j].kind = "Leaf"
          /\ sparse.root.children[j].hash = NoHash

RECURSIVE AllCached(_)
\* Every Leaf and Branch at or under `node` has its hash cached.
AllCached(node) ==
    /\ node.kind \in {"Leaf", "Branch"} => node.hash # NoHash
    /\ node.kind = "Branch" => \A i \in 1..16 : AllCached(node.children[i])

\* C25: memoized hashing: when Trie::hash() returns, every node it encoded,
\* at any depth, has its cache set (so that a later hash() takes the cached
\* hash of each unmodified subtree and does not encode it again).
C25_HashMemoizes == last.op = "hash" => AllCached(trie)

\* ---------------------------------------------------------------------------
\* Properties of the children array
\* ---------------------------------------------------------------------------
\* C26: one_child_left returns Some((i, child)) if and only if exactly one
\* slot of the array is occupied, i being the index of that slot; on an
\* array with no occupied slot (flags 0) it returns None, with no overflow of
\* flags - 1 and no access to a slot 16.
C26_OneChildLeftGuarded ==
    sparse.op = "one_child_left" =>
        /\ sparse.st = "ok"
        /\ sparse.arg[1] = 1 <=> Cardinality(Occupied(sparse.root)) = 1
        /\ sparse.arg[1] = 1 => Occupied(sparse.root) = {sparse.arg[2]}
        /\ sparse.arg[2] \in 0..15

\* ---------------------------------------------------------------------------
\* Properties of the order of a commit
\* ---------------------------------------------------------------------------
RECURSIVE InsertNonZero(_, _, _)
\* The trie after insert of every slot of `todo` with a value, one by one
InsertNonZero(root, slots, todo) ==
    IF todo = {} THEN Res(root, "ok")
    ELSE LET k == MinKey(todo)
         IN  IF slots[k] = U256_ZERO
             THEN InsertNonZero(root, slots, todo \ {k})
             ELSE With(insert_path(root, k, RlpBytes(slots[k])), LAMBDA r :
                      IF r.st # "ok" THEN r
                      ELSE InsertNonZero(r.node, slots, todo \ {k}))

RECURSIVE RemoveZero(_, _, _)
\* The trie after remove of every slot of `todo` set to zero, one by one
RemoveZero(root, slots, todo) ==
    IF todo = {} THEN Res(root, "ok")
    ELSE LET k == MinKey(todo)
         IN  IF slots[k] # U256_ZERO
             THEN RemoveZero(root, slots, todo \ {k})
             ELSE With(remove_path(root, k, "overflow"), LAMBDA r :
                      IF r.st # "ok" THEN r
                      ELSE RemoveZero(r.node, slots, todo \ {k}))

\* The storage trie of `a` that the storage changes of `post` start from
CommitBase(s, post, a) ==
    IF post.storages[a].wiped THEN Res(NoneNode, "ok")
    ELSE With(storage_trie_mut(s, a), LAMBDA m :
             IF m.st # "ok" THEN Res(NoneNode, m.st)
             ELSE Res(m.s.storages[a], "ok"))

\* The storage trie of `a` after the wipe, then the inserts, then the removes
CommitStorage(s, post, a) ==
    With(CommitBase(s, post, a), LAMBDA base :
        IF base.st # "ok" THEN base
        ELSE With(InsertNonZero(base.node, post.storages[a].storage,
                                DOMAIN post.storages[a].storage), LAMBDA ins :
            IF ins.st # "ok" THEN ins
            ELSE RemoveZero(ins.node, post.storages[a].storage,
                            DOMAIN post.storages[a].storage)))

\* The account of `a` that `post` writes, with the storage root `root`
CommitAccount(post, a, root) ==
    EncodeTrieAccount(TrieAccount(
        post.accounts[a].nonce, post.accounts[a].balance, root,
        IF post.accounts[a].bytecode_hash = NoHash THEN KECCAK256_EMPTY
        ELSE post.accounts[a].bytecode_hash))

\* C27: storage commit order in calculate_state_root: for each updated
\* account with storage changes, a storage marked wiped is first replaced by
\* an empty trie, then every non-zero slot is inserted, and only after all
\* inserts every zero slot is removed; the account is written with the root
\* of the storage trie after these steps. So the call leaves that trie and
\* that account, and where these steps in this order complete for the one
\* account of a post-state, the call completes.
C27_StorageCommitOrder ==
    [][(/\ StateReady
        /\ sparse_state'.op = "calculate_state_root"
        /\ sparse_state'.n = sparse_state.n + 1)
       => \A a \in DOMAIN sparse_state'.arg[1].accounts :
            LET post == sparse_state'.arg[1]
            IN  (post.accounts[a].some /\ a \in DOMAIN post.storages) =>
                  With(CommitStorage(sparse_state.s, post, a), LAMBDA e :
                    /\ sparse_state'.st = "ok" =>
                          /\ e.st = "ok"
                          /\ sparse_state'.s.storages[a] = TrieAfterHash(e.node)
                          /\ get_path(sparse_state'.s.state, a) =
                                GetRes("ok", TRUE,
                                       CommitAccount(post, a, TrieHash(e.node)))
                    /\ (/\ DOMAIN post.accounts = {a}
                        /\ e.st = "ok"
                        /\ insert_path(sparse_state.s.state, a,
                                       CommitAccount(post, a, TrieHash(e.node))
                                      ).st = "ok")
                          => sparse_state'.st = "ok")]_vars

\* A post-state that sets one slot to zero and another to one was applied to
\* a storage trie whose root holds a Digest: the root now holds the Digest
\* and the Leaf of the new slot, and no longer the Leaf that was removed.
C27_Witness ==
    /\ sparse_state.op = "calculate_state_root"
    /\ sparse_state.st = "ok"
    /\ sparse_state.n = 1
    /\ Address1 \in DOMAIN sparse_state.arg[1].storages
    /\ Slot3 \in DOMAIN sparse_state.arg[1].storages[Address1].storage
    /\ Address1 \in DOMAIN sparse_state.s.storages
    /\ sparse_state.s.storages[Address1].kind = "Branch"
    /\ ChildAt(sparse_state.s.storages[Address1], 15).kind = "Digest"
    /\ ChildAt(sparse_state.s.storages[Address1], 1).kind = "Leaf"
    /\ ChildAt(sparse_state.s.storages[Address1], 0).kind = "None"

\* C28: account commit order in calculate_state_root: every updated account
\* is inserted into the account trie before any deleted account is removed;
\* each deleted account is removed from the account trie and its storage
\* memo is dropped, so that afterwards account() returns None for it and
\* storage() returns zero. So where the insert of the one new account and
\* then the remove of the one deleted account complete, the call completes
\* and leaves the trie these two steps leave.
C28_AccountCommitOrder ==
    [][(/\ StateReady
        /\ sparse_state'.op = "calculate_state_root"
        /\ sparse_state'.n = sparse_state.n + 1)
       => LET post == sparse_state'.arg[1]
              s    == sparse_state.s
              s2   == sparse_state'.s
          IN  /\ sparse_state'.st = "ok" =>
                    \A d \in DOMAIN post.accounts :
                        ~post.accounts[d].some =>
                            /\ get_path(s2.state, d) = GetNone
                            /\ d \notin DOMAIN s2.storages
                            /\ account(s2, d) = SRes(s2, "ok", NoAccount)
                            /\ \A slot \in {Slot1, Slot3, Slot4} :
                                  storage(s2, d, slot)
                                      = SRes(s2, "ok", U256_ZERO)
              /\ \A p, d \in DOMAIN post.accounts :
                    (/\ DOMAIN post.accounts = {p, d}
                     /\ post.accounts[p].some
                     /\ ~post.accounts[d].some
                     /\ p \notin DOMAIN post.storages
                     /\ p \notin DOMAIN s.storages
                     /\ get_path(s.state, p) = GetNone)
                    => With(insert_path(s.state, p,
                                        CommitAccount(post, p, EMPTY_ROOT_HASH)),
                            LAMBDA ins :
                         With(remove_path(ins.node, d, "overflow"), LAMBDA rem :
                            (ins.st = "ok" /\ rem.st = "ok") =>
                                /\ sparse_state'.st = "ok"
                                /\ s2.state = TrieAfterHash(rem.node)))]_vars

\* A post-state that deletes Address1 and creates Address3 was applied to an
\* account trie whose root holds a Digest beside the Leaf of Address1: the
\* root now holds the Digest and the Leaf of Address3.
C28_Witness ==
    /\ sparse_state.op = "calculate_state_root"
    /\ sparse_state.st = "ok"
    /\ sparse_state.n = 1
    /\ DOMAIN sparse_state.arg[1].accounts = {Address1, Address3}
    /\ sparse_state.s.state.kind = "Branch"
    /\ ChildAt(sparse_state.s.state, 15).kind = "Digest"
    /\ ChildAt(sparse_state.s.state, 1).kind = "Leaf"
    /\ ChildAt(sparse_state.s.state, 0).kind = "None"
    /\ sparse_state.reads = 1
    /\ Address1 \notin DOMAIN sparse_state.s.storages

\* C29: on any trie, sparse tries with Digest nodes included, and any key
\* k: if get(k) completes and returns None, then remove(k) completes
\* without failure and leaves the root hash and the result of get for every
\* key unchanged.
C29_RemoveAbsentIsNoOp ==
    [][(/\ SparseReady
        /\ sparse'.op = "remove"
        /\ sparse'.n = sparse.n + 1
        /\ get_path(sparse.root, sparse'.arg) = GetNone)
       => /\ sparse'.st = "ok"
          /\ TrieHash(sparse'.root) = TrieHash(sparse.root)
          /\ \A k \in Keys :
                get_path(sparse'.root, k) = get_path(sparse.root, k)]_vars

\* The post-state `post` without the storages of the addresses that
\* post.accounts does not map to a present account.
PresentStorages(post) ==
    HashedPostState(
        post.accounts,
        [a \in {x \in DOMAIN post.storages :
                    x \in DOMAIN post.accounts /\ post.accounts[x].some}
            |-> post.storages[a]])

\* C30: calculate_state_root applies a post_state.storages entry only for a
\* hashed address that post_state.accounts maps to a present account: the
\* call ends as it ends for the post-state without the other entries
\* (same failure or same root, same tries), and where it completes the
\* storage trie of an address missing from accounts is the one held before.
C30_StorageOnlyForPresent ==
    [][(/\ StateReady
        /\ sparse_state'.op = "calculate_state_root"
        /\ sparse_state'.n = sparse_state.n + 1)
       => LET post == sparse_state'.arg[1]
              s    == sparse_state.s
              s2   == sparse_state'.s
          IN  /\ \E order \in IterationOrders(DOMAIN post.accounts),
                    slot_orders \in SlotOrders(PresentStorages(post)) :
                    \E r \in StateRootOutcomes(s, PresentStorages(post), order,
                                              slot_orders) :
                        /\ s2 = r.s
                        /\ sparse_state'.st = r.st
                        /\ sparse_state'.ret = r.ret
              /\ sparse_state'.st = "ok" =>
                    \A a \in DOMAIN post.storages \ DOMAIN post.accounts :
                        /\ a \in DOMAIN s2.storages <=> a \in DOMAIN s.storages
                        /\ a \in DOMAIN s.storages =>
                              s2.storages[a] = s.storages[a]]_vars

\* A post-state with storage changes for Address1 and an account for
\* Address2 only was applied to a state that holds the storage trie of
\* Address1.
C30_Witness ==
    /\ sparse_state.op = "calculate_state_root"
    /\ sparse_state.st = "ok"
    /\ sparse_state.n = 1
    /\ DOMAIN sparse_state.arg[1].accounts = {Address2}
    /\ Address1 \in DOMAIN sparse_state.arg[1].storages
    /\ sparse_state.arg[1].storages[Address1].storage # EmptyMap
    /\ Address1 \in DOMAIN sparse_state.s.storages
    /\ sparse_state.s.storages[Address1].kind = "Branch"

====
